---- MODULE Spec2Model ----
(***************************************************************************)
(* The in-memory data layer of the nature-food tracking backend: the       *)
(* DataStore class (users, stockItems, prices) and the HTTP handlers that  *)
(* call it.                                                                *)
(*                                                                         *)
(* Conventions of the model                                                *)
(*  - a JavaScript object is a function from field names to values; a      *)
(*    property whose value is undefined is a name outside DOMAIN;          *)
(*  - money totals are exact: the quotient n / 1000 is carried as the      *)
(*    integer n of thousandths of a currency unit (see Div1000);           *)
(*  - a Date is the integer `now` of the clock, one unit per calendar      *)
(*    year; getFullYear maps it to the year;                               *)
(*  - uuidv4() is a counter per collection: an id is never issued twice.   *)
(***************************************************************************)
EXTENDS Integers, Sequences, FiniteSets, TLC

\* ------------------------------------------------------------------ bounds
MaxUsers == 2
MaxItems == 2
MaxItemIds == 3
MaxPrices == 3
MaxPriceIds == 4
MaxTime == 1

VARIABLES users, stockItems, prices, nextItemId, nextPriceId, now, ret, form, stockForm

vars == <<users, stockItems, prices, nextItemId, nextPriceId, now, ret, form, stockForm>>

\* ------------------------------------------------------- JavaScript helpers
\* obj.f is neither undefined nor missing
Has(obj, f) == f \in DOMAIN obj

\* obj.f || dflt for a numeric property: 0 and undefined are falsy
OrElse(obj, f, dflt) == IF Has(obj, f) /\ obj[f] # 0 THEN obj[f] ELSE dflt

\* a || b for two numbers
Or(a, b) == IF a # 0 THEN a ELSE b

\* { ...a, ...b }
Spread(a, b) == [f \in DOMAIN a \cup DOMAIN b |-> IF f \in DOMAIN b THEN b[f] ELSE a[f]]

\* { ...a, f: v }
With(a, f, v) == [g \in DOMAIN a \cup {f} |-> IF g = f THEN v ELSE a[g]]

\* the object without the property f (f: undefined)
Without(a, f) == [g \in DOMAIN a \ {f} |-> a[g]]

\* n / 1000, carried exactly as n thousandths
Div1000(n) == n

\* Date.getFullYear()
getFullYear(t) == 2024 + t

\* array.findIndex(pred): 0 stands for -1
RECURSIVE FindFrom(_, _, _)
FindFrom(seq, Pred(_), i) ==
    IF i > Len(seq) THEN 0
    ELSE IF Pred(seq[i]) THEN i
    ELSE FindFrom(seq, Pred, i + 1)

findIndex(seq, Pred(_)) == FindFrom(seq, Pred, 1)

\* array.splice(index): without a count every element from index on is removed
splice1_FromIndex(seq, index) == [i \in 1..(index - 1) |-> seq[i]]

\* array.splice(index, 1)
splice1(seq, index) == [i \in 1..(Len(seq) - 1) |-> IF i < index THEN seq[i] ELSE seq[i + 1]]

\* array with the element at index replaced
SetAt(seq, index, v) == [seq EXCEPT ![index] = v]

\* array.filter(pred)
filter(seq, Pred(_)) == SelectSeq(seq, Pred)

Types == {"berry", "mushroom"}

\* ---------------------------------------------------------------- DataStore
\* DataStore.createUser
DataStore_createUser(aliasName, id, t) ==
    [id |-> id, aliasName |-> aliasName, createdAt |-> t, revenue |-> 0, profit |-> 0]

\* DataStore.createStockItem with the cost left out of the profit
DataStore_createStockItem_NoCost(stockItemData, id, t) ==
    LET buyPrice == OrElse(stockItemData, "buyPrice", 0)
        sellPrice == OrElse(stockItemData, "sellPrice", OrElse(stockItemData, "unitPrice", 0))
        unitPrice == OrElse(stockItemData, "unitPrice", sellPrice)
        totalRevenue == Div1000(stockItemData.quantity * sellPrice)
        totalCost == Div1000(stockItemData.quantity * buyPrice)
    IN  Spread(Spread([id |-> id], stockItemData),
               [unitPrice |-> unitPrice, buyPrice |-> buyPrice, sellPrice |-> sellPrice,
                totalRevenue |-> totalRevenue, totalCost |-> totalCost,
                totalProfit |-> totalRevenue, totalPrice |-> totalRevenue,
                collectedAt |-> t])

\* DataStore.createStockItem: the record built from stockItemData
DataStore_createStockItem(stockItemData, id, t) ==
    LET buyPrice == OrElse(stockItemData, "buyPrice", 0)
        sellPrice == OrElse(stockItemData, "sellPrice", OrElse(stockItemData, "unitPrice", 0))
        unitPrice == OrElse(stockItemData, "unitPrice", sellPrice)
        totalRevenue == Div1000(stockItemData.quantity * sellPrice)
        totalCost == Div1000(stockItemData.quantity * buyPrice)
        totalProfit == totalRevenue - totalCost
        totalPrice == totalRevenue
    IN  Spread(Spread([id |-> id], stockItemData),
               [unitPrice |-> unitPrice, buyPrice |-> buyPrice, sellPrice |-> sellPrice,
                totalRevenue |-> totalRevenue, totalCost |-> totalCost,
                totalProfit |-> totalProfit, totalPrice |-> totalPrice,
                collectedAt |-> t])

RecalcFields == {"quantity", "unitPrice", "buyPrice", "sellPrice"}

\* DataStore.updateStockItem rebuilding the record from the partial and losing
\* the location the partial does not name
DataStore_updateStockItem_DropsLocation(item, updates) ==
    LET updatedItem == With(Spread(item, updates), "location",
                            IF Has(updates, "location") THEN updates.location ELSE "")
        buyPrice == OrElse(updatedItem, "buyPrice", 0)
        sellPrice == OrElse(updatedItem, "sellPrice", OrElse(updatedItem, "unitPrice", 0))
        totalRevenue == Div1000(updatedItem.quantity * sellPrice)
        totalCost == Div1000(updatedItem.quantity * buyPrice)
    IN  IF DOMAIN updates \cap RecalcFields # {}
        THEN Spread(updatedItem,
                    [totalRevenue |-> totalRevenue, totalCost |-> totalCost,
                     totalProfit |-> totalRevenue - totalCost,
                     totalPrice |-> totalRevenue, unitPrice |-> sellPrice])
        ELSE updatedItem

\* DataStore.updateStockItem recomputing the totals only when the partial
\* names the quantity
DataStore_updateStockItem_QuantityOnly(item, updates) ==
    LET updatedItem == Spread(item, updates)
        buyPrice == OrElse(updatedItem, "buyPrice", 0)
        sellPrice == OrElse(updatedItem, "sellPrice", OrElse(updatedItem, "unitPrice", 0))
        totalRevenue == Div1000(updatedItem.quantity * sellPrice)
        totalCost == Div1000(updatedItem.quantity * buyPrice)
    IN  IF Has(updates, "quantity")
        THEN Spread(updatedItem,
                    [totalRevenue |-> totalRevenue, totalCost |-> totalCost,
                     totalProfit |-> totalRevenue - totalCost,
                     totalPrice |-> totalRevenue, unitPrice |-> sellPrice])
        ELSE updatedItem

\* DataStore.updateStockItem: the record that replaces item
DataStore_updateStockItem(item, updates) ==
    LET updatedItem == Spread(item, updates)
        buyPrice == OrElse(updatedItem, "buyPrice", 0)
        sellPrice == OrElse(updatedItem, "sellPrice", OrElse(updatedItem, "unitPrice", 0))
        totalRevenue == Div1000(updatedItem.quantity * sellPrice)
        totalCost == Div1000(updatedItem.quantity * buyPrice)
    IN  IF DOMAIN updates \cap RecalcFields # {}
        THEN Spread(updatedItem,
                    [totalRevenue |-> totalRevenue, totalCost |-> totalCost,
                     totalProfit |-> totalRevenue - totalCost,
                     totalPrice |-> totalRevenue, unitPrice |-> sellPrice])
        ELSE updatedItem

\* DataStore.getStockItemById / the index used by update and delete
ItemIndex(id) == findIndex(stockItems, LAMBDA item: item.id = id)

\* DataStore.getUserById: the stored user, without the derived totals
UserIndex(id) == findIndex(users, LAMBDA user: user.id = id)

\* array.reduce((total, x) => total + F(x), 0)
RECURSIVE ReduceFrom(_, _, _, _)
ReduceFrom(seq, F(_), i, total) ==
    IF i > Len(seq) THEN total ELSE ReduceFrom(seq, F, i + 1, total + F(seq[i]))

reduceSum(seq, F(_)) == ReduceFrom(seq, F, 1, 0)

\* item.totalRevenue || item.totalPrice || 0
RevenueOrLegacy(item) == OrElse(item, "totalRevenue", OrElse(item, "totalPrice", 0))

\* the user with revenue and profit folded from the ledger
WithTotals(user) ==
    LET userItems == filter(stockItems, LAMBDA item: item.userId = user.id)
        userRevenue == reduceSum(userItems, RevenueOrLegacy)
        userProfit == reduceSum(userItems,
                                LAMBDA item: OrElse(item, "totalProfit", RevenueOrLegacy(item)))
    IN  Spread(user, [revenue |-> userRevenue, profit |-> userProfit])

\* the value of a lookup that finds nothing (undefined)
undefined == <<>>

\* DataStore.getUserById
getUserById(id) ==
    IF UserIndex(id) = 0 THEN undefined ELSE WithTotals(users[UserIndex(id)])

\* DataStore.getAllUsers
getAllUsers == [i \in 1..Len(users) |-> WithTotals(users[i])]

\* a type filter that is not given ("" is as falsy as undefined)
NoFilter == ""

ZeroBucket == [revenue |-> 0, cost |-> 0, profit |-> 0, itemCount |-> 0]

\* yearlyData after the forEach has visited userItems[i..]
RECURSIVE YearlyFrom(_, _, _)
YearlyFrom(userItems, i, yearlyData) ==
    IF i > Len(userItems) THEN yearlyData
    ELSE LET item == userItems[i]
             year == getFullYear(item.collectedAt)
             old == IF year \in DOMAIN yearlyData THEN yearlyData[year] ELSE ZeroBucket
             revenue == RevenueOrLegacy(item)
             cost == OrElse(item, "totalCost", 0)
             profit == IF Has(item, "totalProfit") THEN item.totalProfit ELSE revenue - cost
         IN  YearlyFrom(userItems, i + 1,
                        With(yearlyData, year,
                             [revenue |-> old.revenue + revenue, cost |-> old.cost + cost,
                              profit |-> old.profit + profit, itemCount |-> old.itemCount + 1]))

\* DataStore.getUserProfitByYear taking every record with a sell price for a sale
getUserProfitByYear_AnySale(userId, typeFilter) ==
    LET ofUser == filter(stockItems, LAMBDA item: item.userId = userId)
        sales == filter(ofUser, LAMBDA item: item.sellPrice > 0)
        userItems == IF typeFilter # NoFilter
                     THEN filter(sales, LAMBDA item: item.type = typeFilter)
                     ELSE sales
    IN  YearlyFrom(userItems, 1, <<>>)

\* DataStore.getUserProfitByYear
getUserProfitByYear(userId, typeFilter) ==
    LET ofUser == filter(stockItems, LAMBDA item: item.userId = userId)
        sales == filter(ofUser, LAMBDA item: item.sellPrice > 0 /\ item.buyPrice > 0)
        userItems == IF typeFilter # NoFilter
                     THEN filter(sales, LAMBDA item: item.type = typeFilter)
                     ELSE sales
    IN  YearlyFrom(userItems, 1, <<>>)

\* the totals of getAllUsersSalesByYear counting buckets instead of their items
RECURSIVE AddBuckets_CountsBuckets(_, _, _)
AddBuckets_CountsBuckets(totalsByYear, salesByYear, years) ==
    IF years = {} THEN totalsByYear
    ELSE LET year == CHOOSE y \in years : TRUE
             old == IF year \in DOMAIN totalsByYear THEN totalsByYear[year] ELSE ZeroBucket
             data == salesByYear[year]
         IN  AddBuckets_CountsBuckets(With(totalsByYear, year,
                             [revenue |-> old.revenue + data.revenue,
                              cost |-> old.cost + data.cost,
                              profit |-> old.profit + data.profit,
                              itemCount |-> old.itemCount + 1]),
                        salesByYear, years \ {year})

\* totalsByYear after the buckets of one user have been added
RECURSIVE AddBuckets(_, _, _)
AddBuckets(totalsByYear, salesByYear, years) ==
    IF years = {} THEN totalsByYear
    ELSE LET year == CHOOSE y \in years : TRUE
             old == IF year \in DOMAIN totalsByYear THEN totalsByYear[year] ELSE ZeroBucket
             data == salesByYear[year]
         IN  AddBuckets(With(totalsByYear, year,
                             [revenue |-> old.revenue + data.revenue,
                              cost |-> old.cost + data.cost,
                              profit |-> old.profit + data.profit,
                              itemCount |-> old.itemCount + data.itemCount]),
                        salesByYear, years \ {year})

\* totalsByYear after the forEach has visited entries[i..]
RECURSIVE TotalsFrom(_, _, _)
TotalsFrom(entries, i, totalsByYear) ==
    IF i > Len(entries) THEN totalsByYear
    ELSE TotalsFrom(entries, i + 1,
                    AddBuckets(totalsByYear, entries[i].salesByYear,
                               DOMAIN entries[i].salesByYear))

\* DataStore.getAllUsersSalesByYear
getAllUsersSalesByYear(typeFilter) ==
    LET all == getAllUsers
        entries == [i \in 1..Len(all) |->
                       [user |-> all[i],
                        salesByYear |-> getUserProfitByYear(all[i].id, typeFilter)]]
    IN  [users |-> entries, totalsByYear |-> TotalsFrom(entries, 1, <<>>)]

\* the forEach of getAvailableInventory counting as sold only the sales that
\* carry a cost basis
RECURSIVE InventoryFrom_SalesNeedCost(_, _, _)
InventoryFrom_SalesNeedCost(userItems, i, inventoryMap) ==
    IF i > Len(userItems) THEN inventoryMap
    ELSE LET item == userItems[i]
             at == findIndex(inventoryMap,
                             LAMBDA e: e.type = item.type /\ e.species = item.species)
             map == IF at = 0
                    THEN Append(inventoryMap,
                                [type |-> item.type, species |-> item.species,
                                 totalPurchased |-> 0, totalSold |-> 0])
                    ELSE inventoryMap
             k == IF at = 0 THEN Len(map) ELSE at
             inventory == map[k]
         IN  InventoryFrom_SalesNeedCost(userItems, i + 1,
                 IF item.buyPrice > 0 /\ item.sellPrice = 0
                 THEN SetAt(map, k, With(inventory, "totalPurchased",
                                         inventory.totalPurchased + item.quantity))
                 ELSE IF item.sellPrice > 0 /\ item.buyPrice > 0
                 THEN SetAt(map, k, With(inventory, "totalSold",
                                         inventory.totalSold + item.quantity))
                 ELSE map)

\* inventoryMap (in insertion order) after the forEach has visited userItems[i..]
RECURSIVE InventoryFrom(_, _, _)
InventoryFrom(userItems, i, inventoryMap) ==
    IF i > Len(userItems) THEN inventoryMap
    ELSE LET item == userItems[i]
             at == findIndex(inventoryMap,
                             LAMBDA e: e.type = item.type /\ e.species = item.species)
             map == IF at = 0
                    THEN Append(inventoryMap,
                                [type |-> item.type, species |-> item.species,
                                 totalPurchased |-> 0, totalSold |-> 0])
                    ELSE inventoryMap
             k == IF at = 0 THEN Len(map) ELSE at
             inventory == map[k]
         IN  InventoryFrom(userItems, i + 1,
                 IF item.buyPrice > 0 /\ item.sellPrice = 0
                 THEN SetAt(map, k, With(inventory, "totalPurchased",
                                         inventory.totalPurchased + item.quantity))
                 ELSE IF item.sellPrice > 0
                 THEN SetAt(map, k, With(inventory, "totalSold",
                                         inventory.totalSold + item.quantity))
                 ELSE map)

\* DataStore.getAvailableInventory, the ledger array being items
AvailableInventoryOf(items, userId, typeFilter, speciesFilter) ==
    LET ofUser == filter(items, LAMBDA item: item.userId = userId)
        ofType == IF typeFilter # NoFilter
                  THEN filter(ofUser, LAMBDA item: item.type = typeFilter)
                  ELSE ofUser
        userItems == IF speciesFilter # NoFilter
                     THEN filter(ofType, LAMBDA item: item.species = speciesFilter)
                     ELSE ofType
        inventoryMap == InventoryFrom(userItems, 1, <<>>)
    IN  [i \in 1..Len(inventoryMap) |->
            With(inventoryMap[i], "availableQuantity",
                 inventoryMap[i].totalPurchased - inventoryMap[i].totalSold)]

\* DataStore.getAvailableInventory
getAvailableInventory(userId, typeFilter, speciesFilter) ==
    AvailableInventoryOf(stockItems, userId, typeFilter, speciesFilter)

\* Math.abs
Abs(x) == IF x < 0 THEN -x ELSE x

\* the tolerance 0.01 of validateDataIntegrity, in thousandths
Tolerance == 10

\* the warning texts of validateDataIntegrity
NoBuyPriceWarning(item) == <<"Item", item.id, "Has sellPrice but no buyPrice">>

MismatchWarning(item) == <<"Item", item.id, "Calculated values don't match stored values">>

\* the second test of validateDataIntegrity
StoredDiffers(item) ==
    LET expectedRevenue == Div1000(item.quantity * item.sellPrice)
        expectedCost == Div1000(item.quantity * item.buyPrice)
        expectedProfit == expectedRevenue - expectedCost
    IN  \/ Abs(item.totalRevenue - expectedRevenue) > Tolerance
        \/ Abs(item.totalCost - expectedCost) > Tolerance
        \/ Abs(item.totalProfit - expectedProfit) > Tolerance

\* the report of validateDataIntegrity comparing revenue and cost only
RECURSIVE IntegrityFrom_ProfitUnchecked(_, _)
IntegrityFrom_ProfitUnchecked(i, report) ==
    IF i > Len(stockItems) THEN report
    ELSE LET item == stockItems[i]
             first == IF item.sellPrice > 0 /\ item.buyPrice = 0
                      THEN [inconsistentItems |-> Append(report.inconsistentItems, item),
                            warnings |-> Append(report.warnings, NoBuyPriceWarning(item))]
                      ELSE report
             second == IF /\ item.sellPrice > 0 /\ item.buyPrice > 0
                          /\ \/ Abs(item.totalRevenue - Div1000(item.quantity * item.sellPrice))
                                    > Tolerance
                             \/ Abs(item.totalCost - Div1000(item.quantity * item.buyPrice))
                                    > Tolerance
                       THEN [inconsistentItems |-> Append(first.inconsistentItems, item),
                             warnings |-> Append(first.warnings, MismatchWarning(item))]
                       ELSE first
         IN  IntegrityFrom_ProfitUnchecked(i + 1, second)

\* the report of validateDataIntegrity after the forEach has visited
\* stockItems[i..]
RECURSIVE IntegrityFrom(_, _)
IntegrityFrom(i, report) ==
    IF i > Len(stockItems) THEN report
    ELSE LET item == stockItems[i]
             first == IF item.sellPrice > 0 /\ item.buyPrice = 0
                      THEN [inconsistentItems |-> Append(report.inconsistentItems, item),
                            warnings |-> Append(report.warnings, NoBuyPriceWarning(item))]
                      ELSE report
             second == IF item.sellPrice > 0 /\ item.buyPrice > 0 /\ StoredDiffers(item)
                       THEN [inconsistentItems |-> Append(first.inconsistentItems, item),
                             warnings |-> Append(first.warnings, MismatchWarning(item))]
                       ELSE first
         IN  IntegrityFrom(i + 1, second)

\* DataStore.validateDataIntegrity
validateDataIntegrity == IntegrityFrom(1, [inconsistentItems |-> <<>>, warnings |-> <<>>])

\* DataStore.createPrice: the index of the entry with the triple of priceData
PriceKeyIndex(priceData) ==
    findIndex(prices, LAMBDA p: /\ p.type = priceData.type
                                /\ p.species = priceData.species
                                /\ p.year = priceData.year)

\* DataStore.createPrice pushing the new entry without looking for the key
DataStore_createPrice_BlindInsert(priceData, id, t) ==
    Append(prices, With(Spread([id |-> id], priceData), "updatedAt", t))

\* DataStore.createPrice replacing the entry of the key by the new object
DataStore_createPrice_NewId(priceData, id, t) ==
    LET price == With(Spread([id |-> id], priceData), "updatedAt", t)
        existingIndex == PriceKeyIndex(priceData)
    IN  IF existingIndex > 0
        THEN SetAt(prices, existingIndex, price)
        ELSE Append(prices, price)

\* DataStore.createPrice: the prices array afterwards
DataStore_createPrice(priceData, id, t) ==
    LET price == With(Spread([id |-> id], priceData), "updatedAt", t)
        existingIndex == PriceKeyIndex(priceData)
    IN  IF existingIndex > 0
        THEN SetAt(prices, existingIndex,
                   With(Spread(prices[existingIndex], priceData), "updatedAt", t))
        ELSE Append(prices, price)

\* DataStore.getPriceById / the index used by update and delete
PriceIndex(id) == findIndex(prices, LAMBDA price: price.id = id)

\* { ...price, ...updates } where updates carries the names in given with a
\* value and the names in blank with undefined
SpreadUndefined(price, given, blank) ==
    [f \in (DOMAIN price \cup DOMAIN given) \ blank |->
        IF f \in DOMAIN given THEN given[f] ELSE price[f]]

\* DataStore.updatePrice: the entry that replaces price
DataStore_updatePrice(price, given, blank, t) ==
    With(SpreadUndefined(price, given, blank), "updatedAt", t)

\* array.sort((a, b) => b.year - a.year): stable, descending by year
RECURSIVE InsertByYear(_, _)
InsertByYear(sorted, p) ==
    IF sorted = <<>> THEN <<p>>
    ELSE IF Head(sorted).year >= p.year
         THEN <<Head(sorted)>> \o InsertByYear(Tail(sorted), p)
         ELSE <<p>> \o sorted

RECURSIVE SortFrom(_, _, _)
SortFrom(seq, i, sorted) ==
    IF i > Len(seq) THEN sorted ELSE SortFrom(seq, i + 1, InsertByYear(sorted, seq[i]))

sortByYearDesc(seq) == SortFrom(seq, 1, <<>>)

\* DataStore.getCurrentPrice returning the latest year without trying the
\* current one first
getCurrentPrice_LatestOnly(type, species) ==
    LET pricesForSpecies ==
            sortByYearDesc(filter(prices, LAMBDA p: p.type = type /\ p.species = species))
    IN  IF pricesForSpecies = <<>> THEN undefined ELSE pricesForSpecies[1]

\* DataStore.getCurrentPrice
getCurrentPrice(type, species) ==
    LET currentYear == getFullYear(now)
        found == findIndex(prices, LAMBDA p: /\ p.type = type /\ p.species = species
                                             /\ p.year = currentYear)
        pricesForSpecies ==
            sortByYearDesc(filter(prices, LAMBDA p: p.type = type /\ p.species = species))
    IN  IF found > 0 THEN prices[found]
        ELSE IF pricesForSpecies = <<>> THEN undefined
        ELSE pricesForSpecies[1]

\* A number that arithmetic on an undefined property can turn into NaN is
\* carried as <<n>>, NaN as the empty tuple
NaN == <<>>

Num(n) == <<n>>

\* obj.f read as an operand of + or -: undefined makes the result NaN
Operand(obj, f) == IF Has(obj, f) THEN Num(obj[f]) ELSE NaN

\* a + b and a - b
Plus(a, b) == IF a = NaN \/ b = NaN THEN NaN ELSE Num(a[1] + b[1])

Minus(a, b) == IF a = NaN \/ b = NaN THEN NaN ELSE Num(a[1] - b[1])

\* yearlyData of getPriceProfitAnalysis after the forEach has visited
\* filteredPrices[i..]
RECURSIVE PriceYearlyFrom(_, _, _)
PriceYearlyFrom(filteredPrices, i, yearlyData) ==
    IF i > Len(filteredPrices) THEN yearlyData
    ELSE LET price == filteredPrices[i]
             year == price.year
             old == IF year \in DOMAIN yearlyData THEN yearlyData[year]
                    ELSE [revenue |-> Num(0), cost |-> Num(0), profit |-> Num(0),
                          itemCount |-> 0]
             profitPerKg == Minus(Operand(price, "sellPrice"), Operand(price, "buyPrice"))
         IN  PriceYearlyFrom(filteredPrices, i + 1,
                             With(yearlyData, year,
                                  [revenue |-> Plus(old.revenue, Operand(price, "sellPrice")),
                                   cost |-> Plus(old.cost, Operand(price, "buyPrice")),
                                   profit |-> Plus(old.profit, profitPerKg),
                                   itemCount |-> old.itemCount + 1]))

\* DataStore.getPriceProfitAnalysis weighting every entry by the ledger
\* records of its (category, species)
getPriceProfitAnalysis_PerRecord(typeFilter) ==
    LET traded == filter(prices, LAMBDA price:
                             \E i \in 1..Len(stockItems) :
                                 /\ stockItems[i].type = price.type
                                 /\ stockItems[i].species = price.species)
        filteredPrices == IF typeFilter # NoFilter
                          THEN filter(traded, LAMBDA price: price.type = typeFilter)
                          ELSE traded
    IN  PriceYearlyFrom(filteredPrices, 1, <<>>)

\* DataStore.getPriceProfitAnalysis
getPriceProfitAnalysis(typeFilter) ==
    LET filteredPrices == IF typeFilter # NoFilter
                          THEN filter(prices, LAMBDA price: price.type = typeFilter)
                          ELSE prices
    IN  PriceYearlyFrom(filteredPrices, 1, <<>>)

\* ------------------------------------------------------------ request inputs
\* the ids a request may name
UserIds == 1..MaxUsers

ItemIds == 1..MaxItemIds

PriceIds == 1..MaxPriceIds

\* an optional property: missing, or one of the values
Opt(f, S) == {<<>>} \cup {f :> v : v \in S}

\* request bodies naming a user, a (type, species) pair and a quantity
Base(U, G, Q) ==
    {[userId |-> u, type |-> g[1], species |-> g[2], quantity |-> q] : u \in U, g \in G, q \in Q}

Blueberry == <<"berry", "blueberry">>
Lingonberry == <<"berry", "lingonberry">>
Chanterelle == <<"mushroom", "chanterelle">>

\* ------------------------------------------------------------------ handlers
\* What the last handler answered: the handler, the HTTP status and the id of
\* the record in the answer (the stored object itself is what the DataStore
\* returns, so the id names the returned record); 0 when it carries none, and
\* the number of rows when the answer is a list.
Response(op, status, id) == [op |-> op, status |-> status, id |-> id]

\* userController.createUser
createUser(aliasName) ==
    /\ Len(users) < MaxUsers
    /\ LET user == DataStore_createUser(aliasName, Len(users) + 1, now)
       IN  /\ users' = Append(users, user)
           /\ ret' = Response("createUser", 201, user.id)
    /\ UNCHANGED <<stockItems, prices, nextItemId, nextPriceId, now, form, stockForm>>

\* stockController.createStockItem refusing a sell price without a buy price
SaleBodyInvalid_NeedsCost(body) ==
    \/ ~Has(body, "userId") \/ ~Has(body, "type") \/ ~Has(body, "species")
    \/ OrElse(body, "quantity", 0) = 0
    \/ (~Has(body, "unitPrice") /\ ~Has(body, "sellPrice"))
    \/ body.type \notin Types
    \/ body.quantity <= 0
    \/ (Has(body, "unitPrice") /\ body.unitPrice < 0)
    \/ (Has(body, "buyPrice") /\ body.buyPrice < 0)
    \/ (Has(body, "sellPrice") /\ body.sellPrice < 0)
    \/ (OrElse(body, "sellPrice", 0) > 0 /\ OrElse(body, "buyPrice", 0) = 0)

\* stockController.createStockItem: the 400 conditions
SaleBodyInvalid(body) ==
    \/ ~Has(body, "userId") \/ ~Has(body, "type") \/ ~Has(body, "species")
    \/ OrElse(body, "quantity", 0) = 0
    \/ (~Has(body, "unitPrice") /\ ~Has(body, "sellPrice"))
    \/ body.type \notin Types
    \/ body.quantity <= 0
    \/ (Has(body, "unitPrice") /\ body.unitPrice < 0)
    \/ (Has(body, "buyPrice") /\ body.buyPrice < 0)
    \/ (Has(body, "sellPrice") /\ body.sellPrice < 0)

\* stockController.createStockItem: the object handed to the DataStore
SaleItemData(body) ==
    LET finalBuyPrice == OrElse(body, "buyPrice", 0)
        finalSellPrice == OrElse(body, "sellPrice", OrElse(body, "unitPrice", 0))
        finalUnitPrice == OrElse(body, "unitPrice", finalSellPrice)
    IN  [userId |-> body.userId, type |-> body.type, species |-> body.species,
         quantity |-> body.quantity, unitPrice |-> finalUnitPrice,
         buyPrice |-> finalBuyPrice, sellPrice |-> finalSellPrice, location |-> ""]

\* stockController.createBuyItem: the 400 conditions
BuyBodyInvalid(body) ==
    \/ ~Has(body, "userId") \/ ~Has(body, "type") \/ ~Has(body, "species")
    \/ OrElse(body, "quantity", 0) = 0
    \/ ~Has(body, "buyPrice")
    \/ body.type \notin Types
    \/ body.quantity <= 0
    \/ body.buyPrice < 0

\* stockController.createBuyItem: the object handed to the DataStore
BuyItemData(body) ==
    [userId |-> body.userId, type |-> body.type, species |-> body.species,
     quantity |-> body.quantity, unitPrice |-> 0, buyPrice |-> body.buyPrice,
     sellPrice |-> 0, location |-> ""]

\* the push of a new record, shared by the two creating handlers
StoreNewItem(op, stockItemData) ==
    /\ Len(stockItems) < MaxItems
    /\ nextItemId <= MaxItemIds
    /\ LET stockItem == DataStore_createStockItem(stockItemData, nextItemId, now)
       IN  /\ stockItems' = Append(stockItems, stockItem)
           /\ ret' = Response(op, 201, stockItem.id)
    /\ nextItemId' = nextItemId + 1
    /\ UNCHANGED <<users, prices, nextPriceId, now, form, stockForm>>

Reject(op, status) ==
    /\ ret' = Response(op, status, 0)
    /\ UNCHANGED <<users, stockItems, prices, nextItemId, nextPriceId, now, form, stockForm>>

\* stockController.createStockItem
createStockItem(body) ==
    IF SaleBodyInvalid(body) THEN Reject("createStockItem", 400)
    ELSE IF UserIndex(body.userId) = 0 THEN Reject("createStockItem", 404)
    ELSE StoreNewItem("createStockItem", SaleItemData(body))

\* stockController.createBuyItem
createBuyItem(body) ==
    IF BuyBodyInvalid(body) THEN Reject("createBuyItem", 400)
    ELSE IF UserIndex(body.userId) = 0 THEN Reject("createBuyItem", 404)
    ELSE StoreNewItem("createBuyItem", BuyItemData(body))

\* stockController.updateStockItem
updateStockItem(id, updates) ==
    LET index == ItemIndex(id)
    IN  IF index = 0 THEN Reject("updateStockItem", 404)
        ELSE LET updatedItem == DataStore_updateStockItem(stockItems[index], updates)
             IN  /\ stockItems' = SetAt(stockItems, index, updatedItem)
                 /\ ret' = Response("updateStockItem", 200, updatedItem.id)
                 /\ UNCHANGED <<users, prices, nextItemId, nextPriceId, now, form, stockForm>>

\* stockController.deleteStockItem splicing at the index it found, -1 included:
\* splice(-1, 1) removes the last element
deleteStockItem_NoCheck(id) ==
    LET index == ItemIndex(id)
    IN  /\ stockItems' = IF index = 0
                         THEN SubSeq(stockItems, 1, Len(stockItems) - 1)
                         ELSE splice1(stockItems, index)
        /\ ret' = Response("deleteStockItem", IF index = 0 THEN 404 ELSE 200, 0)
        /\ UNCHANGED <<users, prices, nextItemId, nextPriceId, now, form, stockForm>>

\* stockController.deleteStockItem
deleteStockItem(id) ==
    LET index == ItemIndex(id)
    IN  IF index = 0 THEN Reject("deleteStockItem", 404)
        ELSE /\ stockItems' = splice1(stockItems, index)
             /\ ret' = Response("deleteStockItem", 200, 0)
             /\ UNCHANGED <<users, prices, nextItemId, nextPriceId, now, form, stockForm>>

\* priceController.createPrice: the 400 conditions
PriceBodyInvalid(body) ==
    \/ ~Has(body, "type") \/ ~Has(body, "species")
    \/ OrElse(body, "year", 0) = 0
    \/ ~Has(body, "buyPrice") \/ ~Has(body, "sellPrice")
    \/ body.type \notin Types
    \/ body.year < 1900 \/ body.year > getFullYear(now) + 10
    \/ body.buyPrice < 0 \/ body.sellPrice < 0

\* priceController.createPrice carrying the new prices into the ledger records
\* of the same category and species
createPrice_Reprices(body) ==
    IF PriceBodyInvalid(body) THEN Reject("createPrice", 400)
    ELSE LET priceData == [type |-> body.type, species |-> body.species, year |-> body.year,
                           buyPrice |-> body.buyPrice, sellPrice |-> body.sellPrice]
             existingIndex == PriceKeyIndex(priceData)
         IN  /\ existingIndex = 0 => (Len(prices) < MaxPrices /\ nextPriceId <= MaxPriceIds)
             /\ prices' = DataStore_createPrice(priceData, nextPriceId, now)
             /\ nextPriceId' = IF existingIndex = 0 THEN nextPriceId + 1 ELSE nextPriceId
             /\ ret' = Response("createPrice", 201,
                                IF existingIndex = 0 THEN nextPriceId
                                ELSE prices[existingIndex].id)
             /\ stockItems' = [i \in 1..Len(stockItems) |->
                                 IF /\ stockItems[i].type = body.type
                                    /\ stockItems[i].species = body.species
                                 THEN DataStore_updateStockItem(stockItems[i],
                                          [buyPrice |-> body.buyPrice,
                                           sellPrice |-> body.sellPrice])
                                 ELSE stockItems[i]]
             /\ UNCHANGED <<users, nextItemId, now, form, stockForm>>

\* priceController.createPrice
createPrice(body) ==
    IF PriceBodyInvalid(body) THEN Reject("createPrice", 400)
    ELSE LET priceData == [type |-> body.type, species |-> body.species, year |-> body.year,
                           buyPrice |-> body.buyPrice, sellPrice |-> body.sellPrice]
             existingIndex == PriceKeyIndex(priceData)
         IN  /\ existingIndex = 0 => (Len(prices) < MaxPrices /\ nextPriceId <= MaxPriceIds)
             /\ prices' = DataStore_createPrice(priceData, nextPriceId, now)
             /\ nextPriceId' = IF existingIndex = 0 THEN nextPriceId + 1 ELSE nextPriceId
             /\ ret' = Response("createPrice", 201,
                                IF existingIndex = 0 THEN nextPriceId
                                ELSE prices[existingIndex].id)
             /\ UNCHANGED <<users, stockItems, nextItemId, now, form, stockForm>>

\* priceController.updatePrice: the 400 conditions
PriceUpdateInvalid(body) ==
    \/ (Has(body, "buyPrice") /\ body.buyPrice < 0)
    \/ (Has(body, "sellPrice") /\ body.sellPrice < 0)
    \/ (~Has(body, "buyPrice") /\ ~Has(body, "sellPrice"))

\* priceController.updatePrice: it hands { buyPrice, sellPrice } to the
\* DataStore, so a price the body does not name is passed as undefined
updatePrice(id, body) ==
    LET index == PriceIndex(id)
        given == [f \in DOMAIN body \cap {"buyPrice", "sellPrice"} |-> body[f]]
        blank == {"buyPrice", "sellPrice"} \ DOMAIN body
    IN  IF PriceUpdateInvalid(body) THEN Reject("updatePrice", 400)
        ELSE IF index = 0 THEN Reject("updatePrice", 404)
        ELSE /\ prices' = SetAt(prices, index,
                                DataStore_updatePrice(prices[index], given, blank, now))
             /\ ret' = Response("updatePrice", 200, id)
             /\ UNCHANGED <<users, stockItems, nextItemId, nextPriceId, now, form, stockForm>>

\* priceController.deletePrice
deletePrice(id) ==
    LET index == PriceIndex(id)
    IN  IF index = 0 THEN Reject("deletePrice", 404)
        ELSE /\ prices' = splice1(prices, index)
             /\ ret' = Response("deletePrice", 200, 0)
             /\ UNCHANGED <<users, stockItems, nextItemId, nextPriceId, now, form, stockForm>>

\* DataStore.getStockItemsByUserAndYear applying the year filter to the whole
\* ledger instead of the user's records
getStockItemsByUserAndYear_AnyUser(userId, year) ==
    LET items == filter(stockItems, LAMBDA item: item.userId = userId)
    IN  IF year # 0
        THEN filter(stockItems, LAMBDA item: getFullYear(item.collectedAt) = year)
        ELSE items

\* DataStore.getStockItemsByUserAndYear: year 0 stands for a year that is
\* not given, or given as 0 or as text that parseInt turns into NaN (`if (year)`)
getStockItemsByUserAndYear(userId, year) ==
    LET items == filter(stockItems, LAMBDA item: item.userId = userId)
    IN  IF year # 0
        THEN filter(items, LAMBDA item: getFullYear(item.collectedAt) = year)
        ELSE items

\* ------------------------------------------------------------- read handlers
\* A handler that only reads: it answers and assigns to no field of the
\* DataStore. Where the DataStore function of the same name is an operator
\* above, the handler carries the prefix Controller_.
Answer(op, status, id) ==
    /\ ret' = Response(op, status, id)
    /\ UNCHANGED <<users, stockItems, prices, nextItemId, nextPriceId, now, form, stockForm>>

\* userController.getUsers
getUsers == Answer("getUsers", 200, Len(getAllUsers))

\* userController.getUserById writing the totals it computed back to the user
Controller_getUserById_StoresTotals(id) ==
    IF getUserById(id) = undefined THEN Answer("getUserById", 404, 0)
    ELSE /\ ret' = Response("getUserById", 200, getUserById(id).id)
         /\ users' = SetAt(users, UserIndex(id), getUserById(id))
         /\ UNCHANGED <<stockItems, prices, nextItemId, nextPriceId, now, form, stockForm>>

\* userController.getUserById
Controller_getUserById(id) ==
    IF getUserById(id) = undefined THEN Answer("getUserById", 404, 0)
    ELSE Answer("getUserById", 200, getUserById(id).id)

\* stockController.getStockItems
getStockItems(userId, year) ==
    Answer("getStockItems", 200, Len(getStockItemsByUserAndYear(userId, year)))

\* stockController.getStockItemById
getStockItemById(id) ==
    IF ItemIndex(id) = 0 THEN Answer("getStockItemById", 404, 0)
    ELSE Answer("getStockItemById", 200, stockItems[ItemIndex(id)].id)

\* stockController.getUserProfitByYear
Controller_getUserProfitByYear(userId, typeFilter) ==
    IF getUserById(userId) = undefined THEN Answer("getUserProfitByYear", 404, 0)
    ELSE Answer("getUserProfitByYear", 200,
                Cardinality(DOMAIN getUserProfitByYear(userId, typeFilter)))

\* stockController.getAllUsersSalesByYear
Controller_getAllUsersSalesByYear(typeFilter) ==
    Answer("getAllUsersSalesByYear", 200, Len(getAllUsersSalesByYear(typeFilter).users))

\* stockController.getAvailableInventory
Controller_getAvailableInventory(userId, typeFilter, speciesFilter) ==
    IF getUserById(userId) = undefined THEN Answer("getAvailableInventory", 404, 0)
    ELSE Answer("getAvailableInventory", 200,
                Len(getAvailableInventory(userId, typeFilter, speciesFilter)))

\* stockController.checkDataIntegrity
checkDataIntegrity ==
    Answer("checkDataIntegrity", 200, Len(validateDataIntegrity.inconsistentItems))

\* priceController.getPriceById
getPriceById(id) ==
    IF PriceIndex(id) = 0 THEN Answer("getPriceById", 404, 0)
    ELSE Answer("getPriceById", 200, prices[PriceIndex(id)].id)

\* priceController.getCurrentPrice: data is the entry, or null
Controller_getCurrentPrice(type, species) ==
    LET price == getCurrentPrice(type, species)
    IN  Answer("getCurrentPrice", 200, IF price = undefined THEN 0 ELSE price.id)

\* priceController.getPriceProfitAnalysis
Controller_getPriceProfitAnalysis(typeFilter) ==
    Answer("getPriceProfitAnalysis", 200,
           Cardinality(DOMAIN getPriceProfitAnalysis(typeFilter)))

\* ------------------------------------------------------ the purchase form
\* BuyForm.tsx keeps its fields as text. A text is '' or a decimal numeral,
\* held as <<whole part, hundredths>>; the prices and quantities here are whole
\* numbers, so the hundredths of every text are 0.
EmptyText == <<>>

\* Number.prototype.toFixed(2)
toFixed2(n) == <<n, 0>>

\* parseFloat
parseFloat(text) == IF text = EmptyText THEN NaN ELSE Num(text[1])

\* the useState initial values of BuyForm; species holds the final species
\* value, '' while none is chosen
BuyForm_initial ==
    [type |-> "berry", species |-> "", quantity |-> EmptyText, buyPrice |-> EmptyText,
     currentPrice |-> undefined, priceFromMonitoring |-> TRUE, error |-> FALSE]

\* the selectedUser prop: the first user of the list once there is one
selectedUser == IF users = <<>> THEN undefined ELSE users[1]

\* the onChange of the quantity field
BuyForm_setQuantity(text) ==
    /\ form' = [form EXCEPT !.quantity = text]
    /\ UNCHANGED <<users, stockItems, prices, nextItemId, nextPriceId, now, ret, stockForm>>

\* BuyForm: a new species is chosen and the effect on [type, species, ...]
\* runs loadCurrentPrice, whose GET /api/prices/current is answered by
\* priceController.getCurrentPrice; an entry without buyPrice makes toFixed
\* throw, and the catch sets currentPrice to null
BuyForm_loadCurrentPrice(species) ==
    LET price == getCurrentPrice(form.type, species)
    IN  /\ species # form.species
        /\ form' =
              IF species = ""
              THEN [form EXCEPT !.species = "", !.currentPrice = undefined,
                                !.buyPrice = IF form.priceFromMonitoring
                                             THEN EmptyText ELSE @]
              ELSE IF price = undefined \/ ~Has(price, "buyPrice")
              THEN [form EXCEPT !.species = species, !.currentPrice = undefined]
              ELSE [form EXCEPT !.species = species, !.currentPrice = price,
                                !.buyPrice = IF form.priceFromMonitoring
                                             THEN toFixed2(price.buyPrice) ELSE @]
        /\ ret' = IF species = "" THEN ret
                  ELSE Response("getCurrentPrice", 200,
                                IF price = undefined THEN 0 ELSE price.id)
        /\ UNCHANGED <<users, stockItems, prices, nextItemId, nextPriceId, now, stockForm>>

\* BuyForm.handleSubmit: the checks that end it before any request
BuyFormInvalid ==
    \/ selectedUser = undefined
    \/ form.species = "" \/ form.quantity = EmptyText \/ form.buyPrice = EmptyText
    \/ parseFloat(form.quantity) = NaN \/ parseFloat(form.quantity)[1] <= 0
    \/ parseFloat(form.buyPrice) = NaN \/ parseFloat(form.buyPrice)[1] < 0

\* BuyForm.handleSubmit: the body of its POST /api/buy-items
BuyFormBody ==
    [userId |-> selectedUser.id, type |-> form.type, species |-> form.species,
     quantity |-> parseFloat(form.quantity)[1], buyPrice |-> parseFloat(form.buyPrice)[1]]

\* BuyForm.handleSubmit: the fields after a 201
BuyFormReset ==
    [form EXCEPT !.species = "", !.quantity = EmptyText, !.buyPrice = EmptyText,
                 !.error = FALSE]

\* BuyForm.handleSubmit with the request it sends, which
\* stockController.createBuyItem serves, and the code after the await
BuyForm_handleSubmit ==
    IF BuyFormInvalid
    THEN /\ form' = [form EXCEPT !.error = TRUE]
         /\ UNCHANGED <<users, stockItems, prices, nextItemId, nextPriceId, now, ret, stockForm>>
    ELSE IF BuyBodyInvalid(BuyFormBody) \/ UserIndex(BuyFormBody.userId) = 0
    THEN /\ ret' = Response("createBuyItem",
                            IF BuyBodyInvalid(BuyFormBody) THEN 400 ELSE 404, 0)
         /\ form' = [form EXCEPT !.error = TRUE]
         /\ UNCHANGED <<users, stockItems, prices, nextItemId, nextPriceId, now, stockForm>>
    ELSE /\ Len(stockItems) < MaxItems
         /\ nextItemId <= MaxItemIds
         /\ stockItems' = Append(stockItems,
                DataStore_createStockItem(BuyItemData(BuyFormBody), nextItemId, now))
         /\ ret' = Response("createBuyItem", 201, nextItemId)
         /\ nextItemId' = nextItemId + 1
         /\ form' = BuyFormReset
         /\ UNCHANGED <<users, prices, nextPriceId, now, stockForm>>

\* stockController.getBuyItems: the rows of its answer; year 0 stands for a
\* year not given
BuyItemsOf(userId, year) ==
    LET stockItemsOfUser == filter(stockItems, LAMBDA item: item.userId = userId)
        buyItems == filter(stockItemsOfUser,
                           LAMBDA item: item.sellPrice = 0 /\ item.buyPrice > 0)
        filteredItems ==
            IF year # 0
            THEN filter(buyItems, LAMBDA item: getFullYear(item.collectedAt) = year)
            ELSE buyItems
    IN  [i \in 1..Len(filteredItems) |->
            LET item == filteredItems[i]
            IN  [f \in DOMAIN item \cap {"id", "userId", "type", "species", "quantity",
                                         "buyPrice", "totalCost", "location", "notes"}
                    |-> item[f]] @@ [purchasedAt |-> item.collectedAt]]

\* stockController.getBuyItems
getBuyItems(userId, year) == Answer("getBuyItems", 200, Len(BuyItemsOf(userId, year)))

\* stockController.deleteBuyItem without its test that the record is a
\* purchase
deleteBuyItem_AnyRecord(id) ==
    LET index == ItemIndex(id)
    IN  IF index = 0 THEN Reject("deleteBuyItem", 404)
        ELSE /\ stockItems' = splice1(stockItems, index)
             /\ ret' = Response("deleteBuyItem", 200, 0)
             /\ UNCHANGED <<users, prices, nextItemId, nextPriceId, now, form, stockForm>>

\* stockController.deleteBuyItem
deleteBuyItem(id) ==
    LET index == ItemIndex(id)
    IN  IF index = 0 THEN Reject("deleteBuyItem", 404)
        ELSE IF ~(stockItems[index].sellPrice = 0 /\ stockItems[index].buyPrice > 0)
        THEN Reject("deleteBuyItem", 400)
        ELSE /\ stockItems' = splice1(stockItems, index)
             /\ ret' = Response("deleteBuyItem", 200, 0)
             /\ UNCHANGED <<users, prices, nextItemId, nextPriceId, now, form, stockForm>>

\* --------------------------------------------------------- the sale form
\* StockForm (CreateUserDialog.tsx) is open in each client. stockForm[c] is
\* where the handleSubmit of client c stands: undefined when none is running,
\* and the body of its POST /api/stock while it waits at `await stockApi.create`.
Clients == {1, 2}

\* StockForm.handleSubmit from its start to the sending of the POST: the
\* checks of the fields, the GET /api/stock/inventory/:userId that
\* stockController.getAvailableInventory serves, and the two refusals
StockForm_handleSubmit(c, type, species, quantity, sellPrice) ==
    LET quantityNum == parseFloat(quantity)
        sellPriceNum == parseFloat(sellPrice)
        inventory == getAvailableInventory(selectedUser.id, type, species)
        availableItem == findIndex(inventory,
                                   LAMBDA item: item.type = type /\ item.species = species)
        availableQuantity == IF availableItem = 0 THEN 0
                             ELSE inventory[availableItem].availableQuantity
    IN  /\ stockForm[c] = undefined
        /\ selectedUser # undefined
        /\ species # "" /\ quantity # EmptyText /\ sellPrice # EmptyText
        /\ quantityNum # NaN /\ quantityNum[1] > 0
        /\ sellPriceNum # NaN /\ sellPriceNum[1] >= 0
        /\ ret' = Response("getAvailableInventory", 200, Len(inventory))
        /\ stockForm' =
              [stockForm EXCEPT ![c] =
                  IF availableQuantity <= 0 \/ quantityNum[1] > availableQuantity
                  THEN undefined
                  ELSE [userId |-> selectedUser.id, type |-> type, species |-> species,
                        quantity |-> quantityNum[1], buyPrice |-> 0,
                        sellPrice |-> sellPriceNum[1]]]
        /\ UNCHANGED <<users, stockItems, prices, nextItemId, nextPriceId, now, form>>

\* StockForm.handleSubmit from the POST to its end: stockController.createStockItem
\* serves the request, and the form is released whatever the answer
StockForm_create(c) ==
    LET body == stockForm[c]
    IN  /\ body # undefined
        /\ stockForm' = [stockForm EXCEPT ![c] = undefined]
        /\ IF SaleBodyInvalid(body) \/ UserIndex(body.userId) = 0
           THEN /\ ret' = Response("createStockItem",
                                   IF SaleBodyInvalid(body) THEN 400 ELSE 404, 0)
                /\ UNCHANGED <<users, stockItems, prices, nextItemId, nextPriceId, now, form>>
           ELSE /\ Len(stockItems) < MaxItems
                /\ nextItemId <= MaxItemIds
                /\ stockItems' = Append(stockItems,
                       DataStore_createStockItem(SaleItemData(body), nextItemId, now))
                /\ ret' = Response("createStockItem", 201, nextItemId)
                /\ nextItemId' = nextItemId + 1
                /\ UNCHANGED <<users, prices, nextPriceId, now, form>>

\* ----------------------------------------------------------- the price query
\* parseInt(text, 10) of a query parameter
parseInt10(text) ==
    CASE text = "2024" -> Num(2024)
      [] text = "2025" -> Num(2025)
      [] OTHER -> NaN

\* DataStore.getPricesByYear
getPricesByYear(year) == filter(prices, LAMBDA price: price.year = year)

\* DataStore.getPricesByTypeAndSpecies: year 0 stands for a year not given
getPricesByTypeAndSpecies(type, species, year) ==
    LET filtered == filter(prices, LAMBDA price: price.type = type /\ price.species = species)
    IN  IF year # 0 THEN filter(filtered, LAMBDA price: price.year = year) ELSE filtered

\* priceController.getAllPrices: the data of its answer, undefined when it
\* answers 400; a query parameter that is not given is ""
PricesQueried(year, type, species) ==
    IF year # ""
    THEN IF parseInt10(year) = NaN THEN undefined
         ELSE getPricesByYear(parseInt10(year)[1])
    ELSE IF type # "" /\ species # ""
    THEN IF type \notin Types THEN undefined
         ELSE getPricesByTypeAndSpecies(type, species, 0)
    ELSE prices

\* priceController.getAllPrices
getAllPrices(year, type, species) ==
    IF \/ year # "" /\ parseInt10(year) = NaN
       \/ year = "" /\ type # "" /\ species # "" /\ type \notin Types
    THEN Answer("getAllPrices", 400, 0)
    ELSE Answer("getAllPrices", 200, Len(PricesQueried(year, type, species)))

\* the clock moves on
Tick ==
    /\ now < MaxTime
    /\ now' = now + 1
    /\ UNCHANGED <<users, stockItems, prices, nextItemId, nextPriceId, ret, form, stockForm>>

\* ------------------------------------------------------------ specifications
Init ==
    /\ users = <<>>
    /\ stockItems = <<>>
    /\ prices = <<>>
    /\ nextItemId = 1
    /\ nextPriceId = 1
    /\ now = 0
    /\ ret = Response("init", 0, 0)
    /\ form = BuyForm_initial
    /\ stockForm = [c \in Clients |-> undefined]

\* ---------------------------------------------------------------------------
\* SpecLedger: the write path of the ledger. One user, one species, every
\* price shape of the two creating endpoints (legacy unitPrice included), and
\* updates of quantity and of each price.
LedgerSaleBodies ==
    {base @@ b @@ s @@ up :
        base \in Base({1}, {Blueberry}, {200, 500}),
        b \in Opt("buyPrice", {3}), s \in Opt("sellPrice", {0, 5}),
        up \in Opt("unitPrice", {4})}

LedgerBuyBodies ==
    {base @@ b : base \in Base({1}, {Blueberry}, {200, 500}), b \in Opt("buyPrice", {3})}

LedgerUpdateBodies ==
    {[quantity |-> 200], [sellPrice |-> 0], [sellPrice |-> 5], [buyPrice |-> 0],
     [quantity |-> 500, buyPrice |-> 3]}

LedgerCreateUser == createUser("Alice")
LedgerCreateStockItem == \E body \in LedgerSaleBodies : createStockItem(body)
LedgerCreateBuyItem == \E body \in LedgerBuyBodies : createBuyItem(body)
LedgerUpdateStockItem == \E id \in ItemIds, updates \in LedgerUpdateBodies : updateStockItem(id, updates)
LedgerDeleteStockItem == \E id \in ItemIds : deleteStockItem(id)

NextLedger ==
    \/ LedgerCreateUser
    \/ LedgerCreateStockItem
    \/ LedgerCreateBuyItem
    \/ LedgerUpdateStockItem
    \/ LedgerDeleteStockItem

SpecLedger == Init /\ [][NextLedger]_vars

\* the stored record with the given id
ItemById(id) == stockItems[ItemIndex(id)]

\* the three derived fields of a record agree with its own quantity and prices
DerivedConsistent(item) ==
    /\ item.totalRevenue = Div1000(item.quantity * item.sellPrice)
    /\ item.totalCost = Div1000(item.quantity * item.buyPrice)
    /\ item.totalProfit = item.totalRevenue - item.totalCost

\* C1: in every reachable state every stored ledger record has
\* totalRevenue = quantity * sellPrice / 1000, totalCost = quantity * buyPrice / 1000
\* and totalProfit = totalRevenue - totalCost with respect to its own stored
\* quantity, buyPrice and sellPrice (also after an update that sets sellPrice to 0).
C1_DerivedFieldsConsistent ==
    \A i \in 1..Len(stockItems) : DerivedConsistent(stockItems[i])

\* C2: a create call with quantity q > 0, buyPrice b >= 0 and sellPrice s >= 0
\* returns and stores a record with totalRevenue = q*s/1000, totalCost = q*b/1000
\* and totalProfit = totalRevenue - totalCost, q, b and s being those of the
\* object handed to DataStore.createStockItem.
CreatedFrom(stockItemData) ==
    LET stockItem == stockItems'[Len(stockItems')]
    IN  /\ stockItemData.quantity > 0 /\ stockItemData.buyPrice >= 0
        /\ stockItemData.sellPrice >= 0
        => /\ Len(stockItems') = Len(stockItems) + 1
           /\ stockItem.id = ret'.id
           /\ stockItem.totalRevenue = Div1000(stockItemData.quantity * stockItemData.sellPrice)
           /\ stockItem.totalCost = Div1000(stockItemData.quantity * stockItemData.buyPrice)
           /\ stockItem.totalProfit = stockItem.totalRevenue - stockItem.totalCost

C2_CreateComputesTotals ==
    [][/\ \A body \in LedgerSaleBodies :
             /\ ret'.op = "createStockItem" /\ ret'.status = 201
             /\ createStockItem(body)
             => CreatedFrom(SaleItemData(body))
       /\ \A body \in LedgerBuyBodies :
             /\ ret'.op = "createBuyItem" /\ ret'.status = 201
             /\ createBuyItem(body)
             => CreatedFrom(BuyItemData(body))]_vars

\* a sale with a profit has just been created and returned
C2_Witness ==
    /\ ret.op = "createStockItem" /\ ret.status = 201
    /\ ItemIndex(ret.id) > 0
    /\ ItemById(ret.id).quantity = 500
    /\ ItemById(ret.id).totalRevenue = 2500
    /\ ItemById(ret.id).totalCost = 1500
    /\ ItemById(ret.id).totalProfit = 1000

\* ---------------------------------------------------------------------------
\* SpecFrame: updates of one record among others. Partials that name notes
\* alone, location alone, a number alone, and a number together with notes.
FrameSaleBodies ==
    {base @@ b @@ [sellPrice |-> 5] :
        base \in Base({1}, {Blueberry}, {500}), b \in Opt("buyPrice", {3})}

FrameUpdateBodies ==
    {[notes |-> "n"], [location |-> "forest"], [quantity |-> 200],
     [quantity |-> 200, notes |-> "n"]}

FrameCreateUser == createUser("Alice")
FrameCreateStockItem == \E body \in FrameSaleBodies : createStockItem(body)
FrameUpdateStockItem == \E id \in ItemIds, updates \in FrameUpdateBodies : updateStockItem(id, updates)
FrameDeleteStockItem == \E id \in ItemIds : deleteStockItem(id)

NextFrame ==
    \/ FrameCreateUser
    \/ FrameCreateStockItem
    \/ FrameUpdateStockItem
    \/ FrameDeleteStockItem

SpecFrame == Init /\ [][NextFrame]_vars

\* the property f has the same value (or is undefined) in both objects
SameField(a, b, f) == (Has(a, f) <=> Has(b, f)) /\ (Has(a, f) => a[f] = b[f])

\* the attributes of a ledger record that are not derived
RecordFields ==
    {"id", "userId", "type", "species", "quantity", "buyPrice", "sellPrice",
     "location", "notes", "collectedAt"}

NumericFields ==
    {"quantity", "buyPrice", "sellPrice", "totalRevenue", "totalCost", "totalProfit"}

\* C3: an update leaves every attribute not named in the partial at its prior
\* value; a partial that names only notes or only location leaves quantity,
\* buyPrice, sellPrice, totalRevenue, totalCost and totalProfit of the record
\* unchanged; every other record is unchanged.
UpdateFrame(id, updates) ==
    LET index == ItemIndex(id)
    IN  /\ Len(stockItems') = Len(stockItems)
        /\ \A j \in 1..Len(stockItems) : j # index => stockItems'[j] = stockItems[j]
        /\ \A f \in RecordFields \ DOMAIN updates :
              SameField(stockItems[index], stockItems'[index], f)
        /\ \A f \in DOMAIN updates : stockItems'[index][f] = updates[f]
        /\ DOMAIN updates \subseteq {"notes", "location"}
           => \A f \in NumericFields \cup {"unitPrice", "totalPrice"} :
                 SameField(stockItems[index], stockItems'[index], f)

C3_UpdateFrame ==
    [][\A id \in ItemIds, updates \in FrameUpdateBodies :
          /\ ret'.op = "updateStockItem" /\ ret'.status = 200 /\ ret'.id = id
          /\ updateStockItem(id, updates)
          => UpdateFrame(id, updates)]_vars

\* a notes-only update has been applied to one of two records, the other of
\* which carries a location
C3_Witness ==
    /\ ret.op = "updateStockItem" /\ ret.status = 200
    /\ Len(stockItems) = 2
    /\ ItemIndex(ret.id) > 0
    /\ Has(ItemById(ret.id), "notes")
    /\ ItemById(ret.id).location = ""
    /\ ItemById(ret.id).totalProfit = 1000
    /\ \E j \in 1..Len(stockItems) :
          stockItems[j].id # ret.id /\ stockItems[j].location = "forest"

\* ---------------------------------------------------------------------------
\* Sums used to state what the read operations must return
RECURSIVE SumOver(_, _)
SumOver(F(_), S) ==
    IF S = {} THEN 0
    ELSE LET x == CHOOSE y \in S : TRUE IN F(x) + SumOver(F, S \ {x})

\* the sum of a numeric field over the ledger records at the indices in S
FieldSum(S, f) == SumOver(LAMBDA i: stockItems[i][f], S)

\* the indices of the ledger records of a user
ItemsOf(userId) == {i \in 1..Len(stockItems) : stockItems[i].userId = userId}

\* the second registered user is Bob, the others Alice
NextAlias == IF Len(users) = 1 THEN "Bob" ELSE "Alice"

\* ---------------------------------------------------------------------------
\* SpecInventory: purchases, sales and sales without a cost basis of two users
\* over three (type, species) pairs; an update can turn a sale into a purchase.
InventorySaleBodies ==
    {base @@ b @@ [sellPrice |-> 5] :
        base \in Base(UserIds, {Blueberry, Lingonberry, Chanterelle}, {200, 500}),
        b \in Opt("buyPrice", {3})}

InventoryBuyBodies ==
    {base @@ [buyPrice |-> b] :
        base \in Base(UserIds, {Blueberry, Lingonberry, Chanterelle}, {500}), b \in {0, 3}}

InventoryUpdateBodies == {[sellPrice |-> 0]}

InventoryCreateUser == createUser(NextAlias)
InventoryCreateStockItem == \E body \in InventorySaleBodies : createStockItem(body)
InventoryCreateBuyItem == \E body \in InventoryBuyBodies : createBuyItem(body)
InventoryUpdateStockItem ==
    \E id \in ItemIds, updates \in InventoryUpdateBodies : updateStockItem(id, updates)
InventoryDeleteStockItem == \E id \in ItemIds : deleteStockItem(id)

NextInventory ==
    \/ InventoryCreateUser
    \/ InventoryCreateStockItem
    \/ InventoryCreateBuyItem
    \/ InventoryUpdateStockItem
    \/ InventoryDeleteStockItem

SpecInventory == Init /\ [][NextInventory]_vars

SpeciesNames == {"blueberry", "lingonberry", "chanterelle"}

\* what availableInventory must report for one user and one pair of filters
InventoryAsClaimed(userId, typeFilter, speciesFilter) ==
    LET inv == getAvailableInventory(userId, typeFilter, speciesFilter)
        Mine == {i \in ItemsOf(userId) :
                    /\ typeFilter = NoFilter \/ stockItems[i].type = typeFilter
                    /\ speciesFilter = NoFilter \/ stockItems[i].species = speciesFilter}
        Keys == {<<stockItems[i].type, stockItems[i].species>> : i \in Mine}
    IN  /\ Len(inv) = Cardinality(Keys)
        /\ \A k \in Keys : \E j \in 1..Len(inv) : inv[j].type = k[1] /\ inv[j].species = k[2]
        /\ \A j \in 1..Len(inv) :
              LET Group == {i \in Mine : /\ stockItems[i].type = inv[j].type
                                         /\ stockItems[i].species = inv[j].species}
                  Purchases == {i \in Group : /\ stockItems[i].buyPrice > 0
                                              /\ stockItems[i].sellPrice = 0}
                  Sales == {i \in Group : stockItems[i].sellPrice > 0}
              IN  /\ inv[j].totalPurchased = FieldSum(Purchases, "quantity")
                  /\ inv[j].totalSold = FieldSum(Sales, "quantity")
                  /\ inv[j].availableQuantity = inv[j].totalPurchased - inv[j].totalSold

\* C6: for every user and every (category, species) among the user's records,
\* availableInventory reports totalPurchased = the quantity of the records with
\* buyPrice > 0 and sellPrice = 0, totalSold = the quantity of the records with
\* sellPrice > 0 (buyPrice = 0 included) and availableQuantity = their
\* difference, unclamped.
C6_InventoryNetting ==
    \A userId \in UserIds, typeFilter \in {NoFilter} \cup Types,
       speciesFilter \in {NoFilter} \cup SpeciesNames :
        InventoryAsClaimed(userId, typeFilter, speciesFilter)

\* a user holds a purchase of one species and has oversold it with a sale
\* that carries no cost basis
C6_Witness ==
    \E userId \in UserIds :
        LET inv == getAvailableInventory(userId, NoFilter, NoFilter)
        IN  /\ Len(inv) = 1
            /\ inv[1].totalPurchased = 200
            /\ inv[1].totalSold = 500
            /\ inv[1].availableQuantity = -300
            /\ \E i \in ItemsOf(userId) :
                  stockItems[i].sellPrice > 0 /\ stockItems[i].buyPrice = 0

\* ---------------------------------------------------------------------------
\* SpecProfit: two users, both categories, two calendar years; sales with a
\* profit, sales at cost (buyPrice = sellPrice), sales without a cost basis and
\* purchases.
ProfitSaleBodies ==
    {base @@ b @@ [sellPrice |-> 5] :
        base \in Base(UserIds, {Blueberry, Chanterelle}, {200, 500}),
        b \in Opt("buyPrice", {3, 5})}

ProfitBuyBodies ==
    {base @@ [buyPrice |-> 3] : base \in Base(UserIds, {Blueberry, Chanterelle}, {500})}

ProfitCreateUser == createUser(NextAlias)
ProfitCreateStockItem == \E body \in ProfitSaleBodies : createStockItem(body)
ProfitCreateBuyItem == \E body \in ProfitBuyBodies : createBuyItem(body)
ProfitDeleteStockItem == \E id \in ItemIds : deleteStockItem(id)

NextProfit ==
    \/ ProfitCreateUser
    \/ ProfitCreateStockItem
    \/ ProfitCreateBuyItem
    \/ ProfitDeleteStockItem
    \/ Tick

SpecProfit == Init /\ [][NextProfit]_vars

\* the indices of the proper sales of a user, of one category if a filter is given
ProperSalesOf(userId, typeFilter) ==
    {i \in ItemsOf(userId) :
        /\ stockItems[i].buyPrice > 0 /\ stockItems[i].sellPrice > 0
        /\ typeFilter = NoFilter \/ stockItems[i].type = typeFilter}

YearOfItem(i) == getFullYear(stockItems[i].collectedAt)

\* what profitByUserYear must return for one user and one filter
ProfitAsClaimed(userId, typeFilter) ==
    LET yearly == getUserProfitByYear(userId, typeFilter)
        Sales == ProperSalesOf(userId, typeFilter)
    IN  /\ DOMAIN yearly = {YearOfItem(i) : i \in Sales}
        /\ \A year \in DOMAIN yearly :
              LET InYear == {i \in Sales : YearOfItem(i) = year}
              IN  /\ yearly[year].itemCount = Cardinality(InYear)
                  /\ yearly[year].revenue = FieldSum(InYear, "totalRevenue")
                  /\ yearly[year].cost = FieldSum(InYear, "totalCost")
                  /\ yearly[year].profit = FieldSum(InYear, "totalProfit")

\* C7: profitByUserYear counts exactly the user's records with buyPrice > 0 and
\* sellPrice > 0 (of the category, with a filter), grouped by creation year;
\* per year itemCount is their number and revenue, cost and profit are the
\* sums of their stored totalRevenue, totalCost and totalProfit.
C7_ProfitByUserYear ==
    \A userId \in UserIds, typeFilter \in {NoFilter} \cup Types :
        ProfitAsClaimed(userId, typeFilter)

\* a user holds a proper sale and a sale without a cost basis of the same
\* year: only the first is in the year's bucket
C7_Witness ==
    \E userId \in UserIds :
        LET yearly == getUserProfitByYear(userId, NoFilter)
        IN  /\ Cardinality(ItemsOf(userId)) = 2
            /\ \E i \in ItemsOf(userId) :
                  stockItems[i].sellPrice > 0 /\ stockItems[i].buyPrice = 0
            /\ DOMAIN yearly = {2025}
            /\ yearly[2025].itemCount = 1
            /\ yearly[2025].profit = 1000

\* C8: getById and listAll return, for every registered user, revenue = the sum
\* of the stored totalRevenue and profit = the sum of the stored totalProfit
\* over all of the user's ledger records, whatever their classification.
C8_UserTotals ==
    \A k \in 1..Len(users) :
        LET id == users[k].id
            user == getUserById(id)
        IN  /\ user.revenue = FieldSum(ItemsOf(id), "totalRevenue")
            /\ user.profit = FieldSum(ItemsOf(id), "totalProfit")
            /\ getAllUsers[k].revenue = user.revenue
            /\ getAllUsers[k].profit = user.profit

\* the sum over the registered users of one field of their bucket for a year
BucketSum(typeFilter, year, f) ==
    SumOver(LAMBDA k: getUserProfitByYear(users[k].id, typeFilter)[year][f],
            {k \in 1..Len(users) :
                year \in DOMAIN getUserProfitByYear(users[k].id, typeFilter)})

\* what allUsersSalesByYear must return for one filter
SalesByYearAsClaimed(typeFilter) ==
    LET result == getAllUsersSalesByYear(typeFilter)
    IN  /\ Len(result.users) = Len(users)
        /\ \A k \in 1..Len(users) :
              /\ result.users[k].user.id = users[k].id
              /\ ProfitAsClaimed(users[k].id, typeFilter)
              /\ result.users[k].salesByYear = getUserProfitByYear(users[k].id, typeFilter)
        /\ DOMAIN result.totalsByYear =
              UNION {DOMAIN getUserProfitByYear(users[k].id, typeFilter) : k \in 1..Len(users)}
        /\ \A year \in DOMAIN result.totalsByYear :
              \A f \in {"revenue", "cost", "profit", "itemCount"} :
                 result.totalsByYear[year][f] = BucketSum(typeFilter, year, f)

\* C9: allUsersSalesByYear returns one entry per registered user holding that
\* user's profitByUserYear result; totalsByYear[year] is, field by field, the
\* sum over all users' buckets for that year, and a year is in totalsByYear
\* exactly when some user has a bucket for it.
C9_AllUsersSalesByYear ==
    \A typeFilter \in {NoFilter} \cup Types : SalesByYearAsClaimed(typeFilter)

\* two users each have one proper sale, both of 2024
C9_Witness ==
    LET result == getAllUsersSalesByYear(NoFilter)
    IN  /\ Len(result.users) = 2
        /\ DOMAIN result.users[1].salesByYear = {2024}
        /\ DOMAIN result.users[2].salesByYear = {2024}
        /\ result.totalsByYear[2024].itemCount = 2
        /\ result.totalsByYear[2024].profit = 1400

\* ---------------------------------------------------------------------------
\* SpecPrice: the price table under upserts, updates by id and deletions, for
\* three (category, species, year) keys and two pairs of prices.
PriceBodies ==
    {[type |-> k[1][1], species |-> k[1][2], year |-> k[2],
      buyPrice |-> bs[1], sellPrice |-> bs[2]] :
        k \in {<<Blueberry, 2024>>, <<Blueberry, 2025>>, <<Chanterelle, 2024>>},
        bs \in {<<2, 5>>, <<1, 4>>}}

PriceUpdateBodies == {[buyPrice |-> 3], [buyPrice |-> 3, sellPrice |-> 6]}

PriceCreatePrice == \E body \in PriceBodies : createPrice(body)
PriceUpdatePrice == \E id \in PriceIds, body \in PriceUpdateBodies : updatePrice(id, body)
PriceDeletePrice == \E id \in PriceIds : deletePrice(id)

NextPrice ==
    \/ PriceCreatePrice
    \/ PriceUpdatePrice
    \/ PriceDeletePrice
    \/ Tick

SpecPrice == Init /\ [][NextPrice]_vars

SameKey(p, q) == p.type = q.type /\ p.species = q.species /\ p.year = q.year

\* C4: the price table holds at most one entry per (category, species, year).
C4_OneEntryPerKey ==
    \A i, j \in 1..Len(prices) : i # j => ~SameKey(prices[i], prices[j])

\* the table is full and an entry has been written twice
C4_Witness ==
    /\ Len(prices) = 3
    /\ \E i \in 1..Len(prices) : prices[i].buyPrice = 1 /\ prices[i].updatedAt = 1
    /\ \E i, j \in 1..Len(prices) :
          /\ prices[i].type = prices[j].type /\ prices[i].species = prices[j].species
          /\ prices[i].year # prices[j].year

\* the entry with the given id
PriceById(id) == prices[PriceIndex(id)]

\* C5: an upsert for a key that has an entry keeps the number of entries,
\* overwrites the entry's buyPrice and sellPrice, refreshes its timestamp and
\* preserves its id; an upsert for a key without an entry adds exactly one
\* entry, with a fresh id.
UpsertEffect(body) ==
    LET existingIndex == PriceKeyIndex(body)
    IN  IF existingIndex > 0
        THEN /\ Len(prices') = Len(prices)
             /\ prices'[existingIndex].id = prices[existingIndex].id
             /\ ret'.id = prices[existingIndex].id
             /\ SameKey(prices'[existingIndex], body)
             /\ prices'[existingIndex].buyPrice = body.buyPrice
             /\ prices'[existingIndex].sellPrice = body.sellPrice
             /\ prices'[existingIndex].updatedAt = now
             /\ \A j \in 1..Len(prices) : j # existingIndex => prices'[j] = prices[j]
        ELSE /\ Len(prices') = Len(prices) + 1
             /\ \A j \in 1..Len(prices) :
                   prices'[j] = prices[j] /\ prices[j].id # prices'[Len(prices')].id
             /\ prices'[Len(prices')].id >= nextPriceId
             /\ nextPriceId' > prices'[Len(prices')].id
             /\ ret'.id = prices'[Len(prices')].id
             /\ SameKey(prices'[Len(prices')], body)
             /\ prices'[Len(prices')].buyPrice = body.buyPrice
             /\ prices'[Len(prices')].sellPrice = body.sellPrice
             /\ prices'[Len(prices')].updatedAt = now

C5_UpsertByKey ==
    [][\A body \in PriceBodies :
          /\ ret'.op = "createPrice" /\ ret'.status = 201
          /\ createPrice(body)
          => UpsertEffect(body)]_vars

\* the last upsert overwrote an entry written in an earlier year: it answered
\* with an id older than the newest one, and the entry carries the new time
C5_Witness ==
    /\ ret.op = "createPrice" /\ ret.status = 201
    /\ ret.id + 1 < nextPriceId
    /\ PriceIndex(ret.id) > 0
    /\ PriceById(ret.id).updatedAt = 1
    /\ PriceById(ret.id).buyPrice = 1
    /\ Len(prices) = 2

\* the indices of the entries of a year, of one category if a filter is given
EntriesOfYear(typeFilter, year) ==
    {i \in 1..Len(prices) :
        /\ prices[i].year = year
        /\ typeFilter = NoFilter \/ prices[i].type = typeFilter}

\* the sum of a price over the entries at the indices in S
PriceSum(S, f) == SumOver(LAMBDA i: prices[i][f], S)

\* what priceProfitAnalysis must return for one filter
AnalysisAsClaimed(typeFilter) ==
    LET yearly == getPriceProfitAnalysis(typeFilter)
    IN  /\ DOMAIN yearly =
              {prices[i].year : i \in {j \in 1..Len(prices) :
                                          typeFilter = NoFilter \/ prices[j].type = typeFilter}}
        /\ \A year \in DOMAIN yearly :
              LET InYear == EntriesOfYear(typeFilter, year)
              IN  /\ yearly[year].itemCount = Cardinality(InYear)
                  /\ \A i \in InYear : Has(prices[i], "sellPrice") /\ Has(prices[i], "buyPrice")
                  /\ yearly[year].revenue = Num(PriceSum(InYear, "sellPrice"))
                  /\ yearly[year].cost = Num(PriceSum(InYear, "buyPrice"))
                  /\ yearly[year].profit =
                         Num(PriceSum(InYear, "sellPrice") - PriceSum(InYear, "buyPrice"))
                  /\ yearly[year].profit = Minus(yearly[year].revenue, yearly[year].cost)

\* C11: priceProfitAnalysis groups the entries of the price table (of the
\* category, with a filter) by year; per year revenue is the sum of sellPrice,
\* cost the sum of buyPrice, profit the sum of sellPrice - buyPrice and
\* itemCount the number of entries, so profit = revenue - cost in every year.
C11_PriceProfitAnalysis ==
    \A typeFilter \in {NoFilter} \cup Types : AnalysisAsClaimed(typeFilter)

\* ---------------------------------------------------------------------------
\* SpecStore: the three collections side by side. Users, ledger records and
\* price entries are written and removed, and every read handler is called in
\* between, with ids that exist and ids that do not.
StoreSaleBodies ==
    {base @@ [buyPrice |-> 3, sellPrice |-> 5] : base \in Base({1}, {Blueberry}, {500})}

StoreUpdateBodies == {[quantity |-> 200]}

StorePriceBodies ==
    {[type |-> "berry", species |-> "blueberry", year |-> 2024,
      buyPrice |-> bs[1], sellPrice |-> bs[2]] : bs \in {<<2, 5>>, <<1, 4>>}}

StorePriceUpdateBodies == {[buyPrice |-> 3]}

StoreWrite ==
    \/ createUser(NextAlias)
    \/ \E body \in StoreSaleBodies : createStockItem(body)
    \/ \E id \in ItemIds, updates \in StoreUpdateBodies : updateStockItem(id, updates)
    \/ \E id \in ItemIds : deleteStockItem(id)
    \/ \E body \in StorePriceBodies : createPrice(body)
    \/ \E id \in PriceIds, body \in StorePriceUpdateBodies : updatePrice(id, body)
    \/ \E id \in PriceIds : deletePrice(id)

StoreRead ==
    \/ getUsers
    \/ \E id \in UserIds : Controller_getUserById(id)
    \/ \E userId \in UserIds, year \in {0, 2024} : getStockItems(userId, year)
    \/ \E id \in ItemIds : getStockItemById(id)
    \/ \E userId \in UserIds, typeFilter \in {NoFilter, "berry"} :
          Controller_getUserProfitByYear(userId, typeFilter)
    \/ \E typeFilter \in {NoFilter, "berry"} : Controller_getAllUsersSalesByYear(typeFilter)
    \/ \E userId \in UserIds, typeFilter \in {NoFilter, "berry"} :
          Controller_getAvailableInventory(userId, typeFilter, NoFilter)
    \/ checkDataIntegrity
    \/ \E id \in PriceIds : getPriceById(id)
    \/ \E g \in {Blueberry, Lingonberry} : Controller_getCurrentPrice(g[1], g[2])
    \/ \E typeFilter \in {NoFilter, "berry"} : Controller_getPriceProfitAnalysis(typeFilter)

NextStore == StoreWrite \/ StoreRead

SpecStore == Init /\ [][NextStore]_vars

\* the handlers that write users or ledger records, those that write price
\* entries, and those that only read
LedgerOps ==
    {"createUser", "createStockItem", "createBuyItem", "updateStockItem", "deleteStockItem"}

PriceOps == {"createPrice", "updatePrice", "deletePrice"}

ReadOps ==
    {"getUsers", "getUserById", "getStockItems", "getStockItemById", "getUserProfitByYear",
     "getAllUsersSalesByYear", "getAvailableInventory", "checkDataIntegrity", "getPriceById",
     "getCurrentPrice", "getPriceProfitAnalysis"}

\* C12: the result of priceProfitAnalysis does not depend on the ledger: no
\* user or ledger operation (create, update, delete) changes it, so two stores
\* with the same price table and different ledgers return the same result.
C12_AnalysisIgnoresLedger ==
    [][ret'.op \in LedgerOps
       => \A typeFilter \in {NoFilter} \cup Types :
             getPriceProfitAnalysis(typeFilter)' = getPriceProfitAnalysis(typeFilter)]_vars

\* a ledger record of a priced species has just been created, and the analysis
\* has a bucket
C12_Witness ==
    /\ ret.op = "createStockItem" /\ ret.status = 201
    /\ Len(stockItems) = 2
    /\ \E i \in 1..Len(prices) :
          prices[i].type = stockItems[1].type /\ prices[i].species = stockItems[1].species
    /\ 2024 \in DOMAIN getPriceProfitAnalysis(NoFilter)
    /\ getPriceProfitAnalysis(NoFilter)[2024].profit = Num(3)

\* C13: no operation on the price table (upsert, update, delete) changes a
\* stored ledger record; every user's totals, profitByUserYear and inventory
\* are the same before and after it.
C13_PricesLeaveLedger ==
    [][ret'.op \in PriceOps
       => /\ stockItems' = stockItems
          /\ users' = users
          /\ getAllUsers' = getAllUsers
          /\ \A userId \in UserIds :
                /\ getUserProfitByYear(userId, NoFilter)' = getUserProfitByYear(userId, NoFilter)
                /\ AvailableInventoryOf(stockItems', userId, NoFilter, NoFilter)
                       = getAvailableInventory(userId, NoFilter, NoFilter)]_vars

\* the price of a species has just been overwritten while the ledger holds a
\* sale of that species at the former price
C13_Witness ==
    /\ ret.op = "createPrice" /\ ret.status = 201
    /\ PriceIndex(ret.id) > 0
    /\ prices[PriceIndex(ret.id)].sellPrice = 4
    /\ \E i \in 1..Len(stockItems) :
          /\ stockItems[i].species = prices[PriceIndex(ret.id)].species
          /\ stockItems[i].sellPrice = 5
          /\ stockItems[i].totalProfit = 1000

\* C15: the read operations (availableInventory, profitByUserYear,
\* allUsersSalesByYear, priceProfitAnalysis, getCurrent, listByUser, user
\* getById and listAll, audit, and the two lookups by id) leave the users, the
\* ledger and the price table as they were: same records, same values, same order.
C15_ReadsWriteNothing ==
    [][ret'.op \in ReadOps
       => users' = users /\ stockItems' = stockItems /\ prices' = prices]_vars

\* a user whose stored totals are 0 has just been read with a revenue, while
\* the ledger and the price table hold records
C15_Witness ==
    /\ ret.op = "getUserById" /\ ret.status = 200
    /\ getUserById(ret.id).revenue > 0
    /\ users[UserIndex(ret.id)].revenue = 0
    /\ Len(stockItems) = 2
    /\ Len(prices) = 1

\* the three collections are untouched by the step
CollectionsUnchanged == users' = users /\ stockItems' = stockItems /\ prices' = prices

\* C16: a ledger or price getById, update or delete called with an id that is
\* not in the collection answers not-found (the DataStore's undefined, null or
\* false) and leaves every collection unchanged.
C16_AbsentIdChangesNothing ==
    [][/\ \A id \in ItemIds :
             /\ ItemIndex(id) = 0
             /\ \/ getStockItemById(id)
                \/ \E updates \in StoreUpdateBodies : updateStockItem(id, updates)
                \/ deleteStockItem(id)
             => ret'.status = 404 /\ CollectionsUnchanged
       /\ \A id \in PriceIds :
             /\ PriceIndex(id) = 0
             /\ \/ getPriceById(id)
                \/ \E body \in StorePriceUpdateBodies : updatePrice(id, body)
                \/ deletePrice(id)
             => ret'.status = 404 /\ CollectionsUnchanged]_vars

\* a delete has just been answered with not-found while the ledger holds two
\* records and the price table one
C16_Witness ==
    /\ ret.op = "deleteStockItem" /\ ret.status = 404
    /\ Len(stockItems) = 2
    /\ Len(prices) = 1

\* C17: delete(id) succeeds exactly when a ledger record with that id exists;
\* it removes that record and no other, the others keeping their fields and
\* their order; afterwards the id is not in the ledger, so a getById answers
\* not-found and a second delete fails.
DeleteEffect(id) ==
    IF ItemIndex(id) > 0
    THEN /\ ret'.status = 200
         /\ stockItems' = SelectSeq(stockItems, LAMBDA item: item.id # id)
         /\ Len(stockItems') = Len(stockItems) - 1
         /\ ItemIndex(id)' = 0
    ELSE ret'.status = 404 /\ stockItems' = stockItems

C17_DeleteRemovesOne ==
    [][\A id \in ItemIds :
          ret'.op = "deleteStockItem" /\ deleteStockItem(id) => DeleteEffect(id)]_vars

\* the first of two records has just been deleted: the second one remains
C17_Witness ==
    /\ ret.op = "deleteStockItem" /\ ret.status = 200
    /\ nextItemId = 3
    /\ Len(stockItems) = 1
    /\ stockItems[1].id = 2

\* ---------------------------------------------------------------------------
\* SpecAudit: the ledger as the audit sees it. Sales with and without a cost
\* basis and purchases are created, request bodies the boundary must refuse are
\* sent, and updates carry what the PUT handler passes on unvalidated: a stored
\* total (within and beyond the tolerance of the audit) and a quantity.
AuditSaleBodies ==
    {base @@ b @@ [sellPrice |-> 5] :
        base \in Base({1}, {Blueberry}, {500, 0}) \cup Base({1}, {<<"fish", "pike">>}, {500}),
        b \in Opt("buyPrice", {3, 0, -1})}

AuditBuyBodies ==
    {base @@ [buyPrice |-> b] : base \in Base({1}, {Blueberry}, {500}), b \in {3, -1}}

AuditUpdateBodies == {[totalProfit |-> 1005], [totalProfit |-> 1020], [quantity |-> -200]}

NextAudit ==
    \/ createUser("Alice")
    \/ \E body \in AuditSaleBodies : createStockItem(body)
    \/ \E body \in AuditBuyBodies : createBuyItem(body)
    \/ \E id \in ItemIds, updates \in AuditUpdateBodies : updateStockItem(id, updates)
    \/ \E id \in ItemIds : deleteStockItem(id)
    \/ checkDataIntegrity

SpecAudit == Init /\ [][NextAudit]_vars

\* the two cases in which the audit must report a record
NoCostBasis(item) == item.sellPrice > 0 /\ item.buyPrice = 0

TotalsOff(item) ==
    /\ item.sellPrice > 0 /\ item.buyPrice > 0
    /\ \/ Abs(item.totalRevenue - item.quantity * item.sellPrice) > 10
       \/ Abs(item.totalCost - item.quantity * item.buyPrice) > 10
       \/ Abs(item.totalProfit - (item.quantity * item.sellPrice
                                     - item.quantity * item.buyPrice)) > 10

\* C14: audit() reports a ledger record exactly when (a) its sellPrice > 0 and
\* its buyPrice = 0, or (b) both prices are > 0 and one of the stored
\* totalRevenue, totalCost, totalProfit differs by more than 0.01 from the value
\* recomputed from quantity and prices; a reported record has exactly one
\* warning, and no other record is reported.
C14_AuditReport ==
    LET report == validateDataIntegrity
        reported == SelectSeq(stockItems, LAMBDA item: NoCostBasis(item) \/ TotalsOff(item))
    IN  /\ report.inconsistentItems = reported
        /\ Len(report.warnings) = Len(reported)
        /\ \A k \in 1..Len(reported) :
              report.warnings[k] = IF NoCostBasis(reported[k])
                                   THEN NoBuyPriceWarning(reported[k])
                                   ELSE MismatchWarning(reported[k])

\* the ledger holds a sale without a cost basis and a sale whose stored profit
\* is off by 0.02: both are reported, each with its own warning
C14_Witness ==
    /\ Len(stockItems) = 2
    /\ NoCostBasis(stockItems[1])
    /\ stockItems[2].totalProfit = 1020
    /\ validateDataIntegrity.warnings =
           <<NoBuyPriceWarning(stockItems[1]), MismatchWarning(stockItems[2])>>

\* C18: creating a ledger record with sellPrice > 0 and buyPrice = 0, for an
\* existing user, a valid category and a quantity > 0, is never rejected: the
\* record is stored and the call succeeds; the anomaly shows afterwards as a
\* warning of the audit.
C18_NoCostBasisAccepted ==
    [][\A body \in AuditSaleBodies :
          /\ ret'.op = "createStockItem"
          /\ body.type \in Types /\ body.quantity > 0 /\ OrElse(body, "buyPrice", 0) = 0
          /\ UserIndex(body.userId) > 0
          /\ createStockItem(body)
          => /\ ret'.status = 201
             /\ Len(stockItems') = Len(stockItems) + 1
             /\ SubSeq(stockItems', 1, Len(stockItems)) = stockItems
             /\ stockItems'[Len(stockItems')].id = ret'.id
             /\ stockItems'[Len(stockItems')].sellPrice = body.sellPrice
             /\ stockItems'[Len(stockItems')].buyPrice = 0
             /\ \E k \in 1..Len(validateDataIntegrity'.warnings) :
                   validateDataIntegrity'.warnings[k]
                       = NoBuyPriceWarning(stockItems'[Len(stockItems')])]_vars

\* a sale without a cost basis has just been created and the audit reports it
C18_Witness ==
    /\ ret.op = "createStockItem" /\ ret.status = 201
    /\ ItemIndex(ret.id) > 0
    /\ NoCostBasis(ItemById(ret.id))
    /\ \E k \in 1..Len(validateDataIntegrity.warnings) :
          validateDataIntegrity.warnings[k] = NoBuyPriceWarning(ItemById(ret.id))

\* C19: in every state reachable through the handlers of the ledger (create
\* sale, create purchase, update, delete) every stored record has quantity > 0,
\* buyPrice >= 0, sellPrice >= 0 and a category in {berry, mushroom}.
C19_StoredRecordsValid ==
    \A i \in 1..Len(stockItems) :
        /\ stockItems[i].quantity > 0
        /\ stockItems[i].buyPrice >= 0
        /\ stockItems[i].sellPrice >= 0
        /\ stockItems[i].type \in Types

\* ---------------------------------------------------------------------------
\* SpecCurrent: the lookup of the current price, for two species and the years
\* before, of and after the first year of the clock.
CurrentBodies ==
    {[type |-> g[1], species |-> g[2], year |-> y, buyPrice |-> 2, sellPrice |-> 5] :
        g \in {Blueberry, Chanterelle}, y \in {2023, 2024, 2025}}

CurrentCreatePrice == \E body \in CurrentBodies : createPrice(body)
CurrentDeletePrice == \E id \in PriceIds : deletePrice(id)

NextCurrent ==
    \/ CurrentCreatePrice
    \/ CurrentDeletePrice
    \/ Tick

SpecCurrent == Init /\ [][NextCurrent]_vars

\* the indices of the entries of a (category, species)
Matching(type, species) ==
    {i \in 1..Len(prices) : prices[i].type = type /\ prices[i].species = species}

\* what getCurrent must return for one (category, species)
CurrentAsClaimed(type, species) ==
    LET price == getCurrentPrice(type, species)
        Match == Matching(type, species)
        currentYear == getFullYear(now)
    IN  /\ (price = undefined) <=> (Match = {})
        /\ Match # {} =>
              /\ \E i \in Match : price = prices[i]
              /\ IF \E i \in Match : prices[i].year = currentYear
                 THEN price.year = currentYear
                 ELSE \A i \in Match : prices[i].year <= price.year

\* C10: getCurrent(category, species) returns the entry of the current calendar
\* year when the (category, species) has one, otherwise its entry with the
\* highest year; it returns absent exactly when no entry matches, and never an
\* entry of another category or species.
C10_GetCurrent ==
    \A g \in {Blueberry, Lingonberry, Chanterelle} : CurrentAsClaimed(g[1], g[2])

\* the current year's entry is returned although the species has an entry of
\* a later year, and the table holds an entry of another species
C10_Witness ==
    /\ getFullYear(now) = 2024
    /\ getCurrentPrice("berry", "blueberry") # undefined
    /\ getCurrentPrice("berry", "blueberry").year = 2024
    /\ \E i \in Matching("berry", "blueberry") : prices[i].year = 2025
    /\ Matching("mushroom", "chanterelle") # {}

\* ---------------------------------------------------------------------------
\* SpecForm: one purchase form with price monitoring on, next to a price
\* table that other requests upsert and update. One user, one priced species
\* (blueberry) and one without an entry (lingonberry).
FormPriceBodies ==
    {[type |-> "berry", species |-> "blueberry", year |-> 2024,
      buyPrice |-> bs[1], sellPrice |-> bs[2]] : bs \in {<<2, 5>>, <<1, 4>>}}

FormPriceUpdateBodies == {[buyPrice |-> 3], [sellPrice |-> 6]}

FormSpecies == {"", "blueberry", "lingonberry"}

FormQuantities == {<<500, 0>>, <<0, 0>>}

FormCreateUser == createUser("Alice")
FormCreatePrice == \E body \in FormPriceBodies : createPrice(body)
FormUpdatePrice == \E id \in {1}, body \in FormPriceUpdateBodies : updatePrice(id, body)
FormSetQuantity == \E text \in FormQuantities : BuyForm_setQuantity(text)
FormLoadCurrentPrice == \E species \in FormSpecies : BuyForm_loadCurrentPrice(species)
FormSubmit == BuyForm_handleSubmit

NextForm ==
    \/ FormCreateUser
    \/ FormCreatePrice
    \/ FormUpdatePrice
    \/ FormSetQuantity
    \/ FormLoadCurrentPrice
    \/ FormSubmit

SpecForm == Init /\ [][NextForm]_vars

\* C20: when a purchase is submitted with price monitoring on, the buyPrice of
\* the record it creates is the buyPrice of the table's current entry for the
\* record's (category, species) at the step that creates the record, whatever
\* upserts and updates of the table come between the form's lookup and its
\* submission.
C20_StoredPriceIsCurrent ==
    [][(/\ Len(stockItems') = Len(stockItems) + 1
        /\ form.priceFromMonitoring)
       => LET item == stockItems'[Len(stockItems')]
              price == getCurrentPrice(item.type, item.species)
          IN  /\ price # undefined
              /\ Has(price, "buyPrice")
              /\ item.buyPrice = price.buyPrice]_vars

\* ---------------------------------------------------------------------------
\* Two update requests on one record. stockController.updateStockItem has no
\* await: each request is one step, so the interleavings of two requests are
\* their two orders, and every state between steps holds whole records.

\* C21: no update is lost: after each of two updates of the same record the
\* stored record carries the fields of that update's partial, keeps every
\* other attribute as the earlier request left it, and has derived fields that
\* agree with its final quantity, buyPrice and sellPrice; no state holds a
\* record whose derived fields are only partly recomputed.
C21_NoLostUpdate ==
    [][\A id \in ItemIds, updates \in LedgerUpdateBodies :
          /\ ret'.op = "updateStockItem" /\ ret'.status = 200 /\ ret'.id = id
          /\ updateStockItem(id, updates)
          => LET old == stockItems[ItemIndex(id)]
                 new == stockItems'[ItemIndex(id)]
             IN  /\ \A f \in DOMAIN updates : new[f] = updates[f]
                 /\ \A f \in RecordFields \ DOMAIN updates : SameField(old, new, f)
                 /\ DerivedConsistent(new)]_vars

\* ---------------------------------------------------------------------------
\* the indices listByUser must return: the records of the user, of the year
\* when one is given
ListedAsClaimed(userId, year) ==
    {i \in ItemsOf(userId) : year # 0 => YearOfItem(i) = year}

\* C22: listByUser(userId, year?) returns exactly the ledger records whose
\* userId is the requested one and, when a year is given, exactly those of
\* them created in that calendar year, each once and in ledger order; it
\* never returns a record of another user.
C22_ListByUser ==
    \A userId \in UserIds \cup {0}, year \in {0, 2024, 2025, 2026} :
        LET items == getStockItemsByUserAndYear(userId, year)
            Claimed == ListedAsClaimed(userId, year)
        IN  /\ Len(items) = Cardinality(Claimed)
            /\ \A i \in Claimed : \E k \in 1..Len(items) : items[k] = stockItems[i]
            /\ \A k \in 1..Len(items) : items[k].userId = userId
            /\ \A k, l \in 1..Len(items) :
                  k < l => \E i, j \in Claimed :
                              i < j /\ items[k] = stockItems[i] /\ items[l] = stockItems[j]

\* the ledger holds a record of each of two users, created in different
\* years; the list of user 1 for 2025 is one record and for 2024 it is empty
C22_Witness ==
    /\ Len(stockItems) = 2
    /\ stockItems[1].userId = 2 /\ YearOfItem(1) = 2024
    /\ stockItems[2].userId = 1 /\ YearOfItem(2) = 2025
    /\ getStockItemsByUserAndYear(1, 2025) = <<stockItems[2]>>
    /\ getStockItemsByUserAndYear(1, 2024) = <<>>

\* ---------------------------------------------------------------------------
\* C23: a price update by id whose body names only one of buyPrice and
\* sellPrice sets that price and the timestamp and leaves the other price, the
\* id and the (category, species, year) key of the entry as they were; every
\* stored entry holds a buyPrice >= 0 and a sellPrice >= 0.
C23_PartialPriceUpdate ==
    [][\A id \in PriceIds, body \in PriceUpdateBodies :
          /\ ret'.op = "updatePrice" /\ ret'.status = 200 /\ ret'.id = id
          /\ updatePrice(id, body)
          => LET old == prices[PriceIndex(id)]
                 new == prices'[PriceIndex(id)]
             IN  /\ \A f \in DOMAIN body : new[f] = body[f]
                 /\ \A f \in {"id", "type", "species", "year", "buyPrice", "sellPrice"}
                                \ DOMAIN body : SameField(old, new, f)
                 /\ new.updatedAt = now
                 /\ \A i \in 1..Len(prices') :
                       /\ Has(prices'[i], "buyPrice") /\ prices'[i].buyPrice >= 0
                       /\ Has(prices'[i], "sellPrice") /\ prices'[i].sellPrice >= 0]_vars

\* ---------------------------------------------------------------------------
\* SpecSale: one user with the sale form open in two clients. Purchases come
\* in through createBuyItem and leave through deleteBuyItem; every sale is
\* made by a form, whose inventory check and POST are separate requests.
SaleFormBuyBodies ==
    {base @@ [buyPrice |-> b] : base \in Base({1}, {Blueberry}, {200, 500}), b \in {3, 0}}

SaleFormQuantities == {<<200, 0>>, <<500, 0>>}

SaleFormPrices == {<<5, 0>>, <<0, 0>>}

NextSale ==
    \/ createUser("Alice")
    \/ \E body \in SaleFormBuyBodies : createBuyItem(body)
    \/ \E id \in ItemIds : deleteBuyItem(id)
    \/ \E c \in Clients, quantity \in SaleFormQuantities, sellPrice \in SaleFormPrices :
          StockForm_handleSubmit(c, "berry", "blueberry", quantity, sellPrice)
    \/ \E c \in Clients : StockForm_create(c)
    \/ \E year \in {0, 2024} : getBuyItems(1, year)

SpecSale == Init /\ [][NextSale]_vars

\* C24: when every sale is created by the sale form's sequence (read the
\* available inventory, refuse when it is <= 0 or less than the quantity
\* asked for, otherwise create the sale), availableQuantity of every
\* (user, category, species) is never negative, whatever the interleaving of
\* sale submissions and purchase deletions.
C24_NeverOversold ==
    \A userId \in UserIds :
        LET inventory == getAvailableInventory(userId, NoFilter, NoFilter)
        IN  \A i \in 1..Len(inventory) : inventory[i].availableQuantity >= 0

\* C27: every sale recorded by the sale form's submission is a proper sale,
\* stored with sellPrice > 0 and buyPrice > 0, and is therefore counted in the
\* user's profitByUserYear for its creation year.
C27_FormSalesAreProper ==
    [][(/\ ret'.op = "createStockItem" /\ ret'.status = 201
        /\ Len(stockItems') = Len(stockItems) + 1)
       => LET item == stockItems'[Len(stockItems')]
          IN  /\ item.sellPrice > 0
              /\ item.buyPrice > 0
              /\ \A userId \in UserIds :
                    item.userId = userId
                    => getFullYear(item.collectedAt)
                          \in DOMAIN getUserProfitByYear(userId, NoFilter)']_vars

\* ---------------------------------------------------------------------------
\* C25: after any sequence of ledger creates, updates and deletes with valid
\* inputs (quantity > 0, prices >= 0) the audit's recomputation check finds
\* nothing: no stored record with both prices > 0 has a totalRevenue,
\* totalCost or totalProfit other than the value recomputed from its own
\* quantity and prices.
C25_AuditFindsNothing ==
    /\ \A k \in 1..Len(validateDataIntegrity.warnings), i \in 1..Len(stockItems) :
          validateDataIntegrity.warnings[k] # MismatchWarning(stockItems[i])
    /\ \A k \in 1..Len(validateDataIntegrity.inconsistentItems) :
          NoCostBasis(validateDataIntegrity.inconsistentItems[k])
    /\ \A i \in 1..Len(stockItems) :
          stockItems[i].buyPrice > 0 /\ stockItems[i].sellPrice > 0
          => DerivedConsistent(stockItems[i])

\* an update has been applied to a sale that holds both prices and is the
\* only record; the audit lists nothing
C25_Witness ==
    /\ ret.op = "updateStockItem" /\ ret.status = 200
    /\ ItemIndex(ret.id) > 0
    /\ ItemById(ret.id).buyPrice = 3 /\ ItemById(ret.id).sellPrice = 5
    /\ ItemById(ret.id).unitPrice = 5
    /\ ItemById(ret.id).quantity = 500
    /\ ItemById(ret.id).totalProfit = 1000
    /\ validateDataIntegrity.inconsistentItems = <<>>
    /\ Len(stockItems) = 1

\* totalPurchased of one (category, species) of a user in the inventory
\* computed from the ledger array items; 0 when the inventory has no such row
TotalPurchasedIn(items, userId, type, species) ==
    LET inventory == AvailableInventoryOf(items, userId, type, species)
    IN  IF inventory = <<>> THEN 0 ELSE inventory[1].totalPurchased

\* C26: every record created through createBuyItem is a purchase: it is
\* stored with sellPrice = 0 and buyPrice > 0, its quantity is added to
\* totalPurchased of its (user, category, species), getBuyItems lists it and
\* deleteBuyItem would remove it.
C26_BuyItemIsPurchase ==
    [][(/\ ret'.op = "createBuyItem" /\ ret'.status = 201
        /\ Len(stockItems') = Len(stockItems) + 1)
       => LET item == stockItems'[Len(stockItems')]
          IN  /\ item.sellPrice = 0
              /\ item.buyPrice > 0
              /\ TotalPurchasedIn(stockItems', item.userId, item.type, item.species)
                    = TotalPurchasedIn(stockItems, item.userId, item.type, item.species)
                      + item.quantity
              /\ \A userId \in UserIds :
                    item.userId = userId
                    => \E k \in 1..Len(BuyItemsOf(userId, 0)') :
                          BuyItemsOf(userId, 0)'[k].id = item.id]_vars

\* ---------------------------------------------------------------------------
\* SpecQuery: the price table of SpecPrice's keys under upserts and deletions,
\* queried with every combination of a year, a category and a species.
QueryYears == {"", "2024", "2025", "next"}

QueryTypes == {"", "berry", "mushroom", "fish"}

QuerySpecies == {"", "blueberry", "chanterelle"}

NextQuery ==
    \/ \E body \in PriceBodies : createPrice(body)
    \/ \E id \in PriceIds : deletePrice(id)
    \/ \E year \in QueryYears, type \in QueryTypes, species \in QuerySpecies :
          getAllPrices(year, type, species)

SpecQuery == Init /\ [][NextQuery]_vars

\* the indices of the entries that match every filter that is supplied
MatchingEveryFilter(year, type, species) ==
    {i \in 1..Len(prices) :
        /\ year # "" => Num(prices[i].year) = parseInt10(year)
        /\ type # "" => prices[i].type = type
        /\ species # "" => prices[i].species = species}

\* C28: the price query returns exactly the entries that match every filter
\* it is given: with a year, a category and a species every returned entry has
\* that year and that category and that species; with no filter it returns
\* every entry.
C28_QueryMatchesEveryFilter ==
    \A year \in {"", "2024", "2025"}, type \in {"", "berry", "mushroom"},
       species \in QuerySpecies :
        LET result == PricesQueried(year, type, species)
            Claimed == MatchingEveryFilter(year, type, species)
        IN  /\ Len(result) = Cardinality(Claimed)
            /\ \A k \in 1..Len(result) : \E i \in Claimed : result[k] = prices[i]

\* ---------------------------------------------------------------------------
\* SpecOwner: two users and proper sales, with updates whose body names a
\* userId (of the other user, of nobody) or a quantity.
OwnerSaleBodies ==
    {base @@ [buyPrice |-> 3, sellPrice |-> 5] : base \in Base(UserIds, {Blueberry}, {500})}

OwnerUpdateBodies == {[userId |-> 2], [userId |-> 3], [quantity |-> 200]}

NextOwner ==
    \/ createUser(NextAlias)
    \/ \E body \in OwnerSaleBodies : createStockItem(body)
    \/ \E id \in ItemIds, updates \in OwnerUpdateBodies : updateStockItem(id, updates)
    \/ \E id \in ItemIds : deleteStockItem(id)

SpecOwner == Init /\ [][NextOwner]_vars

\* C29: in every state reached through the handlers the userId of every
\* ledger record is the id of a registered user, and no step changes the
\* userId of a record; so totalsByYear of allUsersSalesByYear counts every
\* proper sale of the ledger exactly once.
C29_OwnerRegisteredAndFixed ==
    [][/\ \A j \in 1..Len(stockItems') :
             \E k \in 1..Len(users') : users'[k].id = stockItems'[j].userId
       /\ \A i \in 1..Len(stockItems), j \in 1..Len(stockItems') :
             stockItems[i].id = stockItems'[j].id
             => stockItems[i].userId = stockItems'[j].userId
       /\ LET totalsByYear == getAllUsersSalesByYear(NoFilter).totalsByYear
          IN  SumOver(LAMBDA year: totalsByYear[year].itemCount, DOMAIN totalsByYear)
                 = Cardinality({i \in 1..Len(stockItems) :
                                   stockItems[i].buyPrice > 0 /\ stockItems[i].sellPrice > 0})
      ]_vars

\* ---------------------------------------------------------------------------
\* C30: deleteBuyItem removes a ledger record only when the record exists and
\* is a purchase (sellPrice = 0 and buyPrice > 0), and then it removes that
\* record alone; for an unknown id and for a record that is not a purchase it
\* answers with an error and leaves the ledger unchanged.
C30_DeleteBuyItem ==
    [][\A id \in ItemIds :
          ret'.op = "deleteBuyItem" /\ deleteBuyItem(id)
          => IF /\ ItemIndex(id) > 0
                /\ ItemById(id).sellPrice = 0 /\ ItemById(id).buyPrice > 0
             THEN ret'.status = 200 /\ DeleteEffect(id)
             ELSE ret'.status \in {400, 404} /\ stockItems' = stockItems]_vars

\* deleteBuyItem has just refused a record the sale form created, which is
\* still in the ledger next to a purchase
C30_Witness ==
    /\ ret.op = "deleteBuyItem" /\ ret.status = 400
    /\ Len(stockItems) = 2
    /\ \E i \in 1..Len(stockItems) : stockItems[i].sellPrice > 0
    /\ \E i \in 1..Len(stockItems) :
          stockItems[i].sellPrice = 0 /\ stockItems[i].buyPrice > 0

====
